---- MODULE Spec2Model ----
(***************************************************************************)
(* Data-access and API-validation layer of the department web site:       *)
(* the query executor (lib/db), the news and faculty repositories          *)
(* (lib/news, lib/faculty) and the /api/news, /api/faculty routes, over a  *)
(* relational store with the schema of the design document.                *)
(*                                                                         *)
(* Strings are sequences of one-character strings, so that trim(),         *)
(* parseInt() and the slug pattern are computed character by character.    *)
(* Messages of errors and of error responses are sequences of words, so    *)
(* that message.includes(w) and wrapping by the query executor are         *)
(* computed on the words.                                                  *)
(***************************************************************************)
EXTENDS Integers, Sequences, FiniteSets, TLC

VARIABLES news,           \* rows of table news
          faculty,        \* rows of table faculty
          nextNewsId,     \* SERIAL sequence of news.id
          nextFacultyId,  \* SERIAL sequence of faculty.id
          clock,          \* CURRENT_TIMESTAMP of the store
          writes,         \* statements that changed the store so far
          pageContent,    \* rows of table page_content
          nextPageContentId, \* SERIAL sequence of page_content.id
          navigation,     \* rows of table navigation
          migration,      \* the run of the migration script
          procs,          \* the concurrent calls of repository functions in progress
          op,             \* the route that handled the last request
          req,            \* the last request
          resp,           \* its response
          calls,          \* the repository functions it invoked
          stmts,          \* the statements these sent to the store
          thrown,         \* the error its catch block caught, if any
          ret             \* the value its repository call returned

pages == <<pageContent, nextPageContentId, navigation>>
runs == <<migration, procs>>
store == <<news, faculty, nextNewsId, nextFacultyId, clock, writes,
           pageContent, nextPageContentId, navigation>>
last == <<op, req, resp, calls, stmts, thrown, ret>>
vars == <<news, faculty, nextNewsId, nextFacultyId, clock, writes,
          pageContent, nextPageContentId, navigation, migration, procs,
          op, req, resp, calls, stmts, thrown, ret>>

\* no migration is running; no concurrent call is in progress
NoMigration == [pc |-> "none"]
NoProcs == <<>>

(***************************************************************************)
(* Bounds of the model.                                                    *)
(***************************************************************************)
MaxClock == 1
MaxWrites == 2
MaxRows == 3
MaxStamp == 2

(***************************************************************************)
(* JavaScript values.                                                      *)
(***************************************************************************)
Undef == [t |-> "undefined"]
Null == [t |-> "null"]
NaN == [t |-> "NaN"]
Str(s) == [t |-> "string", v |-> s]
Bool(b) == [t |-> "boolean", v |-> b]
Num(n) == [t |-> "number", v |-> n]
Arr(a) == [t |-> "array", v |-> a]
Obj(r) == [t |-> "object", v |-> r]
BadJson == [t |-> "badjson"]

IsString(x) == x.t = "string"
IsBoolean(x) == x.t = "boolean"

\* !x is FALSE exactly for the truthy values
Truthy(x) ==
    CASE x.t = "undefined" -> FALSE
      [] x.t = "null" -> FALSE
      [] x.t = "NaN" -> FALSE
      [] x.t = "string" -> x.v # <<>>
      [] x.t = "boolean" -> x.v
      [] x.t = "number" -> x.v # 0
      [] OTHER -> TRUE

\* a || b
OrElse(a, b) == IF Truthy(a) THEN a ELSE b

\* a ?? b
Coalesce(a, b) == IF a.t \in {"undefined", "null"} THEN b ELSE a

\* Array.isArray(x) && x.every(e => typeof e === 'string')
IsStringArray(x) == x.t = "array" /\ \A i \in 1..Len(x.v) : IsString(x.v[i])

\* typeof x === 'number' && Number.isInteger(x)
IsIntegerNumber(x) == x.t = "number"

\* relational operators on numbers: every comparison with NaN is false
NumLt(x, n) == x.t = "number" /\ x.v < n
NumGt(x, n) == x.t = "number" /\ x.v > n
IsNaN(x) == x.t = "NaN"

(***************************************************************************)
(* Strings.                                                                *)
(***************************************************************************)
RECURSIVE TrimStart(_)
TrimStart(s) == IF s # <<>> /\ Head(s) = " " THEN TrimStart(Tail(s)) ELSE s

RECURSIVE TrimEnd(_)
TrimEnd(s) ==
    IF s # <<>> /\ s[Len(s)] = " " THEN TrimEnd(SubSeq(s, 1, Len(s) - 1)) ELSE s

\* String.prototype.trim
Trim(s) == TrimEnd(TrimStart(s))

\* x.trim() of a string value
TrimV(x) == Str(Trim(x.v))

\* x?.trim()
OptTrim(x) == IF x.t \in {"undefined", "null"} THEN Undef ELSE TrimV(x)

Digits == {"0", "1", "2", "3", "4", "5", "6", "7", "8", "9"}

DigitVal(c) ==
    CASE c = "0" -> 0 [] c = "1" -> 1 [] c = "2" -> 2 [] c = "3" -> 3
      [] c = "4" -> 4 [] c = "5" -> 5 [] c = "6" -> 6 [] c = "7" -> 7
      [] c = "8" -> 8 [] c = "9" -> 9

DigitChar(n) ==
    CASE n = 0 -> "0" [] n = 1 -> "1" [] n = 2 -> "2" [] n = 3 -> "3"
      [] n = 4 -> "4" [] n = 5 -> "5" [] n = 6 -> "6" [] n = 7 -> "7"
      [] n = 8 -> "8" [] n = 9 -> "9"

RECURSIVE DigitsPrefix(_)
DigitsPrefix(s) ==
    IF s # <<>> /\ Head(s) \in Digits
    THEN <<Head(s)>> \o DigitsPrefix(Tail(s))
    ELSE <<>>

RECURSIVE DigitsValue(_)
DigitsValue(d) ==
    IF d = <<>> THEN 0
    ELSE 10 * DigitsValue(SubSeq(d, 1, Len(d) - 1)) + DigitVal(d[Len(d)])

\* parseInt(s, 10): leading blanks, an optional sign, the longest prefix of
\* digits; NaN when there is no digit
ParseInt(s) ==
    LET t == TrimStart(s)
        signed == t # <<>> /\ Head(t) \in {"-", "+"}
        u == IF signed THEN Tail(t) ELSE t
        d == DigitsPrefix(u)
    IN  IF d = <<>> THEN NaN
        ELSE IF signed /\ Head(t) = "-" THEN Num(0 - DigitsValue(d))
        ELSE Num(DigitsValue(d))

\* the decimal text of a natural number, as the store returns COUNT(*)
RECURSIVE NatToText(_)
NatToText(n) ==
    IF n < 10 THEN <<DigitChar(n)>>
    ELSE NatToText(n \div 10) \o <<DigitChar(n % 10)>>

\* /^[a-z0-9-_]+$/.test(s)
SlugChars == {"a", "b", "c", "z", "0", "1", "9", "-", "_"}
SlugPattern(s) == s # <<>> /\ \A i \in 1..Len(s) : s[i] \in SlugChars

\* the elements of a sequence, as a set
Range(q) == {q[i] : i \in 1..Len(q)}

\* message.includes(w)
Includes(msg, w) == \E i \in 1..Len(msg) : msg[i] = w

(***************************************************************************)
(* The relational store: tables news and faculty.                          *)
(* A driver call either throws or returns rows; out.table is the table     *)
(* after the statement, out.nextId the SERIAL sequence after it.           *)
(***************************************************************************)
UniqueViolation ==
    [isError |-> TRUE,
     message |-> <<"duplicate", "key", "value", "violates", "unique", "constraint">>]
NotNullViolation ==
    [isError |-> TRUE,
     message |-> <<"null", "value", "violates", "not-null", "constraint">>]
InvalidInput ==
    [isError |-> TRUE, message |-> <<"invalid", "input", "syntax">>]
ConnectionError ==
    [isError |-> TRUE, message |-> <<"connection", "refused">>]
NonErrorThrown == [isError |-> FALSE]

DriverThrows(e, tbl, nid) ==
    [thrown |-> TRUE, e |-> e, rows |-> <<>>, table |-> tbl, nextId |-> nid]
DriverRows(rows, tbl, nid) ==
    [thrown |-> FALSE, e |-> NonErrorThrown, rows |-> rows, table |-> tbl, nextId |-> nid]

\* a failure of the connection at the at-th statement of a call (0: none)
NoFault == [at |-> 0, e |-> NonErrorThrown]
Faults == {NoFault, [at |-> 1, e |-> ConnectionError], [at |-> 1, e |-> NonErrorThrown]}
ListFaults == Faults \cup {[at |-> 2, e |-> ConnectionError]}

\* the k-th statement of a call: the injected failure, else the statement
Driver(fault, k, tbl, nid, out) ==
    IF fault.at = k THEN DriverThrows(fault.e, tbl, nid) ELSE out

RowOf(tbl, id) == CHOOSE r \in tbl : r.id = id
HasId(tbl, id) == \E r \in tbl : r.id = id

\* NOT NULL and UNIQUE columns of the schema
NewsNotNull == {"title", "slug", "content"}
NewsUnique == {"slug"}
FacultyNotNull == {"name", "title", "category"}
FacultyUnique == {}

\* the lookup by id with the filter of the list query
SqlSelectNewsById_PublishedOnly(tbl, nid, id) ==
    DriverRows(IF HasId(tbl, id) /\ RowOf(tbl, id).isPublished = Bool(TRUE)
               THEN <<RowOf(tbl, id)>> ELSE <<>>, tbl, nid)

\* SELECT ... FROM news WHERE id = $1
SqlSelectNewsById(tbl, nid, id) ==
    DriverRows(IF HasId(tbl, id) THEN <<RowOf(tbl, id)>> ELSE <<>>, tbl, nid)

\* INSERT INTO news (...) VALUES (...) RETURNING ...
SqlInsertNews(tbl, nid, now, p) ==
    IF \E c \in NewsNotNull : p[c] = Null
    THEN DriverThrows(NotNullViolation, tbl, nid + 1)
    ELSE IF \E r \in tbl : r.slug = p.slug
    THEN DriverThrows(UniqueViolation, tbl, nid + 1)
    ELSE LET row == [id |-> nid, title |-> p.title, slug |-> p.slug,
                     summary |-> p.summary, content |-> p.content,
                     thumbnailUrl |-> p.thumbnailUrl, author |-> p.author,
                     category |-> p.category, publishedAt |-> now,
                     updatedAt |-> now, isPublished |-> p.isPublished,
                     viewCount |-> 0, tags |-> p.tags]
         IN  DriverRows(<<row>>, tbl \cup {row}, nid + 1)

\* UPDATE news SET view_count = view_count + 1, updated_at = CURRENT_TIMESTAMP
SqlIncrementViewCount_Touch(tbl, nid, now, id) ==
    DriverRows(<<>>, {IF r.id = id THEN [r EXCEPT !.viewCount = @ + 1, !.updatedAt = now]
                      ELSE r : r \in tbl}, nid)

\* UPDATE news SET view_count = view_count + 1 WHERE id = $1
SqlIncrementViewCount(tbl, nid, now, id) ==
    DriverRows(<<>>, {IF r.id = id THEN [r EXCEPT !.viewCount = @ + 1] ELSE r : r \in tbl},
               nid)

\* an UPDATE that writes the whole row: a nullable column without a value is
\* set to NULL
SqlUpdate_Replace(tbl, nid, now, id, sets, notNull, unique) ==
    IF ~HasId(tbl, id) THEN DriverRows(<<>>, tbl, nid)
    ELSE LET old == RowOf(tbl, id)
             new == [c \in DOMAIN old |->
                        IF c \in DOMAIN sets THEN sets[c]
                        ELSE IF c = "updatedAt" THEN now
                        ELSE IF c \in notNull \cup {"id", "publishedAt", "createdAt",
                                                   "viewCount"}
                        THEN old[c]
                        ELSE Null]
         IN  DriverRows(<<new>>, (tbl \ {old}) \cup {new}, nid)

\* UPDATE <table> SET <sets>, updated_at = CURRENT_TIMESTAMP WHERE id = $n
\* RETURNING ...; sets is a function from the assigned columns to values,
\* notNull and unique are the constrained columns of the table
SqlUpdate(tbl, nid, now, id, sets, notNull, unique) ==
    IF ~HasId(tbl, id) THEN DriverRows(<<>>, tbl, nid)
    ELSE LET old == RowOf(tbl, id)
             new == [c \in DOMAIN old |->
                        IF c \in DOMAIN sets THEN sets[c]
                        ELSE IF c = "updatedAt" THEN now
                        ELSE old[c]]
         IN  IF \E c \in notNull : new[c] = Null
             THEN DriverThrows(NotNullViolation, tbl, nid)
             ELSE IF \E r \in tbl : r.id # id /\ \E c \in unique : r[c] = new[c]
             THEN DriverThrows(UniqueViolation, tbl, nid)
             ELSE DriverRows(<<new>>, (tbl \ {old}) \cup {new}, nid)

\* DELETE FROM news WHERE id = $1 RETURNING id   (also: FROM faculty)
SqlDeleteById(tbl, nid, id) ==
    IF HasId(tbl, id)
    THEN DriverRows(<<[id |-> id]>>, tbl \ {RowOf(tbl, id)}, nid)
    ELSE DriverRows(<<>>, tbl, nid)

\* WHERE is_published = true [AND category = $1]
NewsMatching(tbl, category) ==
    {r \in tbl : r.isPublished = Bool(TRUE)
                 /\ (category # Undef => r.category = category)}

\* the orders ORDER BY published_at ASC may produce
DescOrders_Asc(rows) ==
    {s \in [1..Cardinality(rows) -> rows] :
        /\ \A i, j \in 1..Cardinality(rows) : i # j => s[i] # s[j]
        /\ \A i, j \in 1..Cardinality(rows) :
              i < j => s[i].publishedAt <= s[j].publishedAt}

\* the orders ORDER BY published_at DESC may produce (ties in any order)
DescOrders(rows) ==
    {s \in [1..Cardinality(rows) -> rows] :
        /\ \A i, j \in 1..Cardinality(rows) : i # j => s[i] # s[j]
        /\ \A i, j \in 1..Cardinality(rows) :
              i < j => s[i].publishedAt >= s[j].publishedAt}

\* LIMIT lim OFFSET off of an ordered result
Window(s, lim, off) ==
    IF off >= Len(s) THEN <<>>
    ELSE SubSeq(s, off + 1, IF off + lim > Len(s) THEN Len(s) ELSE off + lim)

\* SELECT ... FROM news WHERE ... ORDER BY published_at DESC LIMIT OFFSET:
\* the set of outcomes
SqlSelectNewsList(tbl, nid, category, lim, off) ==
    IF lim.t # "number" \/ off.t # "number" THEN {DriverThrows(InvalidInput, tbl, nid)}
    ELSE IF lim.v < 0 \/ off.v < 0 THEN {DriverThrows(InvalidInput, tbl, nid)}
    ELSE {DriverRows(Window(s, lim.v, off.v), tbl, nid) :
             s \in DescOrders(NewsMatching(tbl, category))}

\* the COUNT of the rows that are not published
SqlCountNews_Hidden(tbl, nid, category) ==
    DriverRows(<<[count |-> Str(NatToText(Cardinality(
                    {r \in tbl : r.isPublished # Bool(TRUE)})))]>>, tbl, nid)

\* SELECT COUNT(*) as count FROM news WHERE ...: one row, the count as text
SqlCountNews(tbl, nid, category) ==
    DriverRows(<<[count |-> Str(NatToText(Cardinality(NewsMatching(tbl, category))))]>>,
               tbl, nid)

\* INSERT INTO faculty (...) VALUES (...) RETURNING ...
SqlInsertFaculty(tbl, nid, now, p) ==
    IF \E c \in FacultyNotNull : p[c] = Null
    THEN DriverThrows(NotNullViolation, tbl, nid + 1)
    ELSE LET row == [c \in DOMAIN p \cup {"id", "createdAt", "updatedAt"} |->
                        IF c = "id" THEN nid
                        ELSE IF c \in {"createdAt", "updatedAt"} THEN now
                        ELSE p[c]]
         IN  DriverRows(<<row>>, tbl \cup {row}, nid + 1)

\* SELECT ... FROM faculty WHERE id = $1
SqlSelectFacultyById(tbl, nid, id) ==
    DriverRows(IF HasId(tbl, id) THEN <<RowOf(tbl, id)>> ELSE <<>>, tbl, nid)

\* the collation of the model's characters, and lower-casing
Alphabet == <<" ", "!", "%", "-", "0", "1", "9", "@", "A", "M", "T", "_",
              "a", "b", "c", "m", "t", "z">>
CharRank(c) == CHOOSE i \in 1..Len(Alphabet) : Alphabet[i] = c
LowerChar(c) == CASE c = "A" -> "a" [] c = "M" -> "m" [] c = "T" -> "t" [] OTHER -> c
Lower(s) == [i \in 1..Len(s) |-> LowerChar(s[i])]

RECURSIVE TextLess(_, _)
TextLess(a, b) ==
    IF b = <<>> THEN FALSE
    ELSE IF a = <<>> THEN TRUE
    ELSE IF Head(a) # Head(b) THEN CharRank(Head(a)) < CharRank(Head(b))
    ELSE TextLess(Tail(a), Tail(b))

\* s contains q as a substring
Contains(s, q) ==
    \E i \in 0..(Len(s) - Len(q)) : SubSeq(s, i + 1, i + Len(q)) = q

\* col ILIKE '%q%' of a nullable text column (q without wildcards)
ILikeContains(col, q) == col # Null /\ Contains(Lower(col.v), Lower(q))

\* $1 = ANY(col) of a nullable text[] column
EqualsAny(p, col) == col # Null /\ \E i \in 1..Len(col.v) : col.v[i] = p

\* WHERE is_visible = true [AND category = $1] [AND (name ILIKE $2 OR
\* name_en ILIKE $2 OR title ILIKE $2 OR $2 = ANY(research_interests))];
\* pattern is the bound parameter '%' + searchQuery + '%'
FacultyMatching(tbl, category, searchQuery) ==
    LET pattern == Str(<<"%">> \o searchQuery.v \o <<"%">>)
    IN  {r \in tbl :
            /\ r.isVisible = Bool(TRUE)
            /\ (category # Undef => r.category = category)
            /\ (searchQuery # Undef =>
                   \/ ILikeContains(r.name, searchQuery.v)
                   \/ ILikeContains(r.nameEn, searchQuery.v)
                   \/ ILikeContains(r.title, searchQuery.v)
                   \/ EqualsAny(pattern, r.researchInterests))}

\* the orders ORDER BY sort_order ASC, name ASC may produce
FacultyOrders(rows) ==
    {s \in [1..Cardinality(rows) -> rows] :
        /\ \A i, j \in 1..Cardinality(rows) : i # j => s[i] # s[j]
        /\ \A i, j \in 1..Cardinality(rows) :
              i < j => \/ s[i].sortOrder.v < s[j].sortOrder.v
                       \/ /\ s[i].sortOrder.v = s[j].sortOrder.v
                          /\ ~TextLess(s[j].name.v, s[i].name.v)}

\* SELECT ... FROM faculty WHERE ... ORDER BY sort_order ASC, name ASC
SqlSelectFacultyList(tbl, nid, category, searchQuery) ==
    {DriverRows(s, tbl, nid) :
        s \in FacultyOrders(FacultyMatching(tbl, category, searchQuery))}

(***************************************************************************)
(* Query executor (lib/db).                                                *)
(***************************************************************************)
NoError == [message |-> <<>>]

\* query: rows of the driver, or a thrown Error wrapping the driver's error
query(out) ==
    IF out.thrown
    THEN [thrown |-> TRUE,
          error |-> [message |-> <<"Database", "operation", "failed:">> \o
                                 (IF out.e.isError THEN out.e.message
                                  ELSE <<"Unknown", "error">>)],
          rows |-> <<>>, table |-> out.table, nextId |-> out.nextId]
    ELSE [thrown |-> FALSE, error |-> NoError,
          rows |-> out.rows, table |-> out.table, nextId |-> out.nextId]

\* queryOne: results[0] || null, the error of query rethrown unchanged
queryOne(out) ==
    LET q == query(out)
    IN  [thrown |-> q.thrown, error |-> q.error,
         value |-> IF q.thrown \/ q.rows = <<>> THEN Null ELSE q.rows[1],
         table |-> q.table, nextId |-> q.nextId]

\* the outcome of a repository call
Returned(value, tbl, nid, st) ==
    [thrown |-> FALSE, error |-> NoError, value |-> value,
     table |-> tbl, nextId |-> nid, stmts |-> st]
Threw(error, tbl, nid, st) ==
    [thrown |-> TRUE, error |-> error, value |-> Null,
     table |-> tbl, nextId |-> nid, stmts |-> st]
OfQueryOne(q, st) ==
    IF q.thrown THEN Threw(q.error, q.table, q.nextId, st)
    ELSE Returned(q.value, q.table, q.nextId, st)

\* a parameter as the driver binds it: undefined is sent as NULL
Param(x) == IF x = Undef THEN Null ELSE x

(***************************************************************************)
(* News repository (lib/news).                                             *)
(***************************************************************************)
NewsFields == {"title", "slug", "summary", "content", "thumbnailUrl",
               "author", "category", "isPublished", "tags"}

\* (page - 1) * pageSize
Offset(page, pageSize) ==
    IF page.t = "number" /\ pageSize.t = "number"
    THEN Num((page.v - 1) * pageSize.v)
    ELSE NaN

\* getNewsList counting without the category filter
getNewsList_CountAll(tbl, nid, page, pageSize, category, fault) ==
    LET offset == Offset(page, pageSize)
        filter == IF Truthy(category) THEN category ELSE Undef
        cnt == queryOne(Driver(fault, 2, tbl, nid, SqlCountNews(tbl, nid, Undef)))
        total == IF cnt.value # Null THEN ParseInt(cnt.value.count.v) ELSE Num(0)
    IN  {IF items.thrown THEN Threw(items.error, tbl, nid, <<"SELECT">>)
         ELSE IF cnt.thrown THEN Threw(cnt.error, tbl, nid, <<"SELECT", "SELECT">>)
         ELSE Returned([items |-> items.rows, total |-> total], tbl, nid,
                       <<"SELECT", "SELECT">>) :
           items \in {query(Driver(fault, 1, tbl, nid, o)) :
                         o \in SqlSelectNewsList(tbl, nid, filter, pageSize, offset)}}

\* getNewsList up to its first await: the page query, a set of outcomes (the
\* store orders ties as it likes)
getNewsListItems(tbl, nid, page, pageSize, category, fault) ==
    LET offset == Offset(page, pageSize)
        filter == IF Truthy(category) THEN category ELSE Undef
    IN  {query(Driver(fault, 1, tbl, nid, o)) :
            o \in SqlSelectNewsList(tbl, nid, filter, pageSize, offset)}

\* getNewsList after the page query has answered items: the COUNT query, a
\* second round trip to the store
getNewsListTotal(tbl, nid, category, items, fault) ==
    LET filter == IF Truthy(category) THEN category ELSE Undef
        cnt == queryOne(Driver(fault, 2, tbl, nid, SqlCountNews(tbl, nid, filter)))
        total == IF cnt.value # Null THEN ParseInt(cnt.value.count.v) ELSE Num(0)
    IN  IF items.thrown THEN Threw(items.error, tbl, nid, <<"SELECT">>)
        ELSE IF cnt.thrown THEN Threw(cnt.error, tbl, nid, <<"SELECT", "SELECT">>)
        ELSE Returned([items |-> items.rows, total |-> total], tbl, nid,
                      <<"SELECT", "SELECT">>)

\* getNewsList: the set of outcomes
getNewsList(tbl, nid, page, pageSize, category, fault) ==
    {getNewsListTotal(tbl, nid, category, items, fault) :
        items \in getNewsListItems(tbl, nid, page, pageSize, category, fault)}

getNewsById(tbl, nid, id, fault) ==
    OfQueryOne(queryOne(Driver(fault, 1, tbl, nid, SqlSelectNewsById(tbl, nid, id))), <<"SELECT">>)

createNews(tbl, nid, now, n, fault) ==
    LET params == [title |-> Param(n.title),
                   slug |-> Param(n.slug),
                   summary |-> OrElse(n.summary, Null),
                   content |-> Param(n.content),
                   thumbnailUrl |-> OrElse(n.thumbnailUrl, Null),
                   author |-> OrElse(n.author, Null),
                   category |-> OrElse(n.category, Null),
                   isPublished |-> Param(n.isPublished),
                   tags |-> OrElse(n.tags, Null)]
        q == queryOne(Driver(fault, 1, tbl, nid, SqlInsertNews(tbl, nid, now, params)))
    IN  IF q.thrown THEN Threw(q.error, q.table, q.nextId, <<"INSERT">>)
        ELSE IF q.value = Null
        THEN Threw([message |-> <<"Failed", "to", "create", "news", "article">>],
                   q.table, q.nextId, <<"INSERT">>)
        ELSE Returned(q.value, q.table, q.nextId, <<"INSERT">>)

\* the assignments of a dynamic UPDATE: the fields that are not undefined
Assignments(n) == [c \in {f \in DOMAIN n : n[f] # Undef} |-> n[c]]

\* updateNews without the return for an empty list of assignments
updateNews_AlwaysUpdate(tbl, nid, now, id, n, fault) ==
    OfQueryOne(queryOne(Driver(fault, 1, tbl, nid,
                   SqlUpdate(tbl, nid, now, id, Assignments(n), NewsNotNull, NewsUnique))),
               <<"UPDATE">>)

updateNews(tbl, nid, now, id, n, fault) ==
    LET sets == Assignments(n)
    IN  IF DOMAIN sets = {} THEN getNewsById(tbl, nid, id, fault)
        ELSE OfQueryOne(queryOne(Driver(fault, 1, tbl, nid, SqlUpdate(tbl, nid, now, id, sets, NewsNotNull, NewsUnique))),
                        <<"UPDATE">>)

deleteNews(tbl, nid, id, fault) ==
    LET q == queryOne(Driver(fault, 1, tbl, nid, SqlDeleteById(tbl, nid, id)))
    IN  IF q.thrown THEN Threw(q.error, q.table, q.nextId, <<"DELETE">>)
        ELSE Returned(Bool(q.value # Null), q.table, q.nextId, <<"DELETE">>)

\* incrementViewCount: one statement, nothing is returned
incrementViewCount(tbl, nid, now, id, fault) ==
    LET q == query(Driver(fault, 1, tbl, nid, SqlIncrementViewCount(tbl, nid, now, id)))
    IN  IF q.thrown THEN Threw(q.error, q.table, q.nextId, <<"UPDATE">>)
        ELSE Returned(Undef, q.table, q.nextId, <<"UPDATE">>)

(***************************************************************************)
(* Request validation shared by the routes: an ordered list of checks, the *)
(* first violated one decides the 400 message.                             *)
(***************************************************************************)
Check(rule, field, msg) == [rule |-> rule, field |-> field, sys |-> {}, msg |-> msg]
SysCheck(fields, msg) == [rule |-> "system", field |-> "id", sys |-> fields, msg |-> msg]

Violates(c, b) ==
    LET x == b[c.field]
    IN  CASE c.rule = "required" ->
                 ~Truthy(x) \/ ~IsString(x) \/ Trim(x.v) = <<>>
          [] c.rule = "nonEmpty" ->
                 x # Undef /\ (~IsString(x) \/ Trim(x.v) = <<>>)
          [] c.rule = "pattern" -> ~(IsString(x) /\ SlugPattern(x.v))
          [] c.rule = "patternIfDefined" ->
                 x # Undef /\ ~(IsString(x) /\ SlugPattern(x.v))
          [] c.rule = "optString" -> x # Undef /\ ~IsString(x)
          [] c.rule = "optStringNullable" ->
                 x # Undef /\ x # Null /\ ~IsString(x)
          [] c.rule = "optBoolean" -> x # Undef /\ ~IsBoolean(x)
          [] c.rule = "optStringArray" -> x # Undef /\ ~IsStringArray(x)
          [] c.rule = "optStringArrayNullable" ->
                 x # Undef /\ x # Null /\ ~IsStringArray(x)
          [] c.rule = "optInteger" -> x # Undef /\ ~IsIntegerNumber(x)
          [] c.rule = "system" -> \E f \in c.sys : b[f] # Undef

\* the message of the first violated check, <<>> when every check passes
RECURSIVE FirstViolation(_, _)
FirstViolation(checks, b) ==
    IF checks = <<>> THEN <<>>
    ELSE IF Violates(Head(checks), b) THEN Head(checks).msg
    ELSE FirstViolation(Tail(checks), b)

MustBeAString(f) == <<f, "must", "be", "a", "string">>
MustBeNonEmpty(f) == <<f, "must", "be", "a", "non-empty", "string">>
IsRequired(f) == <<f, "is", "required", "and", "must", "be", "a", "non-empty", "string">>
SlugFormatMsg == <<"Slug", "must", "contain", "only", "lowercase", "letters,",
                   "numbers,", "hyphens,", "and", "underscores">>
InternalServerError == <<"Internal", "server", "error">>

(***************************************************************************)
(* Responses and the record of one handled request.                        *)
(***************************************************************************)
Reply(status, body) ==
    [status |-> status, contentType |-> "application/json", body |-> body]
ErrorReply(status, msg) == Reply(status, [error |-> msg])

\* a request answered without any repository call; err is the caught error
NoCall(tbl, nid, response, err) ==
    [resp |-> response, calls |-> <<>>, stmts |-> <<>>, thrown |-> err,
     ret |-> Undef, table |-> tbl, nextId |-> nid]

\* a request answered after the repository call name with outcome r
AfterCall(name, r, response) ==
    [resp |-> response, calls |-> <<name>>, stmts |-> r.stmts,
     thrown |-> r.error, ret |-> IF r.thrown THEN Undef ELSE r.value,
     table |-> r.table, nextId |-> r.nextId]

\* request.json() rejects / body.title of null throws
JsonSyntaxError == [message |-> <<"Unexpected", "token", "in", "JSON">>]
NullBodyTypeError == [message |-> <<"Cannot", "read", "properties", "of", "null">>]

\* parseInt(params.id || '', 10)
IdParam(p) == ParseInt(OrElse(p, Str(<<>>)).v)
InvalidId(id) == IsNaN(id) \/ NumLt(id, 1)

(***************************************************************************)
(* /api/news and /api/news/[id]                                            *)
(***************************************************************************)
NewsBodyKeys == NewsFields \cup {"id", "viewCount", "publishedAt", "updatedAt"}

\* the checks of POST with the slug tested before the title
NewsPostChecks_SlugFirst ==
    << Check("required", "slug", IsRequired("Slug")),
       Check("required", "title", IsRequired("Title")),
       Check("required", "content", IsRequired("Content")),
       Check("pattern", "slug", SlugFormatMsg),
       Check("optString", "summary", MustBeAString("Summary")),
       Check("optString", "thumbnailUrl", MustBeAString("ThumbnailUrl")),
       Check("optString", "author", MustBeAString("Author")),
       Check("optString", "category", MustBeAString("Category")),
       Check("optBoolean", "isPublished", <<"IsPublished", "must", "be", "a", "boolean">>),
       Check("optStringArray", "tags", <<"Tags", "must", "be", "an", "array", "of", "strings">>) >>

\* the checks of POST /api/news, in the order of the handler
NewsPostChecks ==
    << Check("required", "title", IsRequired("Title")),
       Check("required", "slug", IsRequired("Slug")),
       Check("required", "content", IsRequired("Content")),
       Check("pattern", "slug", SlugFormatMsg),
       Check("optString", "summary", MustBeAString("Summary")),
       Check("optString", "thumbnailUrl", MustBeAString("ThumbnailUrl")),
       Check("optString", "author", MustBeAString("Author")),
       Check("optString", "category", MustBeAString("Category")),
       Check("optBoolean", "isPublished", <<"IsPublished", "must", "be", "a", "boolean">>),
       Check("optStringArray", "tags", <<"Tags", "must", "be", "an", "array", "of", "strings">>) >>

\* the checks of PUT without the format check of the slug
NewsPutChecks_NoFormat ==
    << Check("nonEmpty", "title", MustBeNonEmpty("Title")),
       Check("nonEmpty", "slug", MustBeNonEmpty("Slug")),
       Check("nonEmpty", "content", MustBeNonEmpty("Content")),
       Check("optStringNullable", "summary", MustBeAString("Summary")),
       Check("optStringNullable", "thumbnailUrl", MustBeAString("ThumbnailUrl")),
       Check("optStringNullable", "author", MustBeAString("Author")),
       Check("optStringNullable", "category", MustBeAString("Category")),
       Check("optBoolean", "isPublished", <<"IsPublished", "must", "be", "a", "boolean">>),
       Check("optStringArrayNullable", "tags", <<"Tags", "must", "be", "an", "array", "of", "strings">>),
       SysCheck({"id", "viewCount", "publishedAt", "updatedAt"},
                <<"Cannot", "update", "system", "fields", "(id,", "viewCount,",
                  "publishedAt,", "updatedAt)">>) >>

NewsPutChecks ==
    << Check("nonEmpty", "title", MustBeNonEmpty("Title")),
       Check("nonEmpty", "slug", MustBeNonEmpty("Slug")),
       Check("patternIfDefined", "slug", SlugFormatMsg),
       Check("nonEmpty", "content", MustBeNonEmpty("Content")),
       Check("optStringNullable", "summary", MustBeAString("Summary")),
       Check("optStringNullable", "thumbnailUrl", MustBeAString("ThumbnailUrl")),
       Check("optStringNullable", "author", MustBeAString("Author")),
       Check("optStringNullable", "category", MustBeAString("Category")),
       Check("optBoolean", "isPublished", <<"IsPublished", "must", "be", "a", "boolean">>),
       Check("optStringArrayNullable", "tags", <<"Tags", "must", "be", "an", "array", "of", "strings">>),
       SysCheck({"id", "viewCount", "publishedAt", "updatedAt"},
                <<"Cannot", "update", "system", "fields", "(id,", "viewCount,",
                  "publishedAt,", "updatedAt)">>) >>

NewsSlugExists == <<"A", "news", "article", "with", "this", "slug", "already", "exists">>
NewsNotFound == <<"News", "article", "not", "found">>
InvalidNewsId == <<"Invalid", "news", "ID">>
InvalidPagination ==
    <<"Invalid", "pagination", "parameters.", "Page", "must", "be", ">=", "1,",
      "pageSize", "must", "be", "between", "1", "and", "100.">>

\* the catch block without the mapping of conflicts
NewsWriteCatch_NoMapping(error) == ErrorReply(500, InternalServerError)

\* the catch block of POST /api/news and PUT /api/news/[id]
NewsWriteCatch(error) ==
    IF Includes(error.message, "duplicate") \/ Includes(error.message, "unique")
    THEN ErrorReply(409, NewsSlugExists)
    ELSE ErrorReply(500, InternalServerError)

\* a catch block answering with the message of the error
PlainCatch_Leak(error) == ErrorReply(500, error.message)

\* the catch block of the reading and deleting routes, and of the faculty routes
PlainCatch(error) == ErrorReply(500, InternalServerError)

\* Math.ceil(a / b) for a >= 0, b >= 1
Ceil(a, b) == (a + b - 1) \div b

\* GET /api/news: the set of outcomes
NewsIndexGET(q, tbl, nid, fault) ==
    LET page == ParseInt(OrElse(q.page, Str(<<"1">>)).v)
        pageSize == ParseInt(OrElse(q.pageSize, Str(<<"1", "0">>)).v)
        category == OrElse(q.category, Undef)
    IN  IF NumLt(page, 1) \/ NumLt(pageSize, 1) \/ NumGt(pageSize, 100)
        THEN {NoCall(tbl, nid, ErrorReply(400, InvalidPagination), NoError)}
        ELSE {IF r.thrown THEN AfterCall("getNewsList", r, PlainCatch(r.error))
              ELSE AfterCall("getNewsList", r,
                     Reply(200, [items |-> r.value.items, total |-> r.value.total,
                                 page |-> page, pageSize |-> pageSize,
                                 totalPages |-> Num(Ceil(r.value.total.v, pageSize.v))])) :
                r \in getNewsList(tbl, nid, page, pageSize, category, fault)}

\* the newsData object POST /api/news builds from a validated body
NewsData(b) ==
    [title |-> TrimV(b.title),
     slug |-> TrimV(b.slug),
     summary |-> OptTrim(b.summary),
     content |-> TrimV(b.content),
     thumbnailUrl |-> OptTrim(b.thumbnailUrl),
     author |-> OptTrim(b.author),
     category |-> OptTrim(b.category),
     isPublished |-> Coalesce(b.isPublished, Bool(TRUE)),
     tags |-> b.tags]

\* POST /api/news
NewsIndexPOST(body, tbl, nid, now, fault) ==
    IF body = BadJson THEN NoCall(tbl, nid, NewsWriteCatch(JsonSyntaxError), JsonSyntaxError)
    ELSE IF body = Null THEN NoCall(tbl, nid, NewsWriteCatch(NullBodyTypeError), NullBodyTypeError)
    ELSE LET b == body.v
             violated == FirstViolation(NewsPostChecks, b)
             r == createNews(tbl, nid, now, NewsData(b), fault)
         IN  IF violated # <<>> THEN NoCall(tbl, nid, ErrorReply(400, violated), NoError)
             ELSE IF r.thrown THEN AfterCall("createNews", r, NewsWriteCatch(r.error))
             ELSE AfterCall("createNews", r, Reply(201, r.value))

\* GET /api/news/[id] looking the row up before checking the id
NewsIdGET_LookupFirst(idp, tbl, nid, fault) ==
    LET id == IdParam(idp)
        r == getNewsById(tbl, nid, IF id.t = "number" THEN id.v ELSE 0, fault)
    IN  IF InvalidId(id) THEN AfterCall("getNewsById", r, ErrorReply(400, InvalidNewsId))
        ELSE IF r.thrown THEN AfterCall("getNewsById", r, ErrorReply(500, InternalServerError))
        ELSE IF r.value = Null THEN AfterCall("getNewsById", r, ErrorReply(404, NewsNotFound))
        ELSE AfterCall("getNewsById", r, Reply(200, r.value))

\* GET /api/news/[id]
NewsIdGET(idp, tbl, nid, fault) ==
    LET id == IdParam(idp)
        r == getNewsById(tbl, nid, id.v, fault)
    IN  IF InvalidId(id) THEN NoCall(tbl, nid, ErrorReply(400, InvalidNewsId), NoError)
        ELSE IF r.thrown THEN AfterCall("getNewsById", r, PlainCatch(r.error))
        ELSE IF r.value = Null THEN AfterCall("getNewsById", r, ErrorReply(404, NewsNotFound))
        ELSE AfterCall("getNewsById", r, Reply(200, r.value))

\* if (body.f !== undefined) updateData.f = body.f.trim()
SetTrim(x) == IF x # Undef THEN TrimV(x) ELSE Undef
\* if (body.f !== undefined) updateData.f = body.f === null ? null : body.f.trim()
SetOptTrim_KeepNull(x) == IF x = Null THEN Null ELSE IF x # Undef THEN OptTrim(x) ELSE Undef

\* if (body.f !== undefined) updateData.f = body.f?.trim()
SetOptTrim(x) == IF x # Undef THEN OptTrim(x) ELSE Undef

\* the updateData object PUT /api/news/[id] builds from a validated body
NewsUpdateData(b) ==
    [title |-> SetTrim(b.title),
     slug |-> SetTrim(b.slug),
     summary |-> SetOptTrim(b.summary),
     content |-> SetTrim(b.content),
     thumbnailUrl |-> SetOptTrim(b.thumbnailUrl),
     author |-> SetOptTrim(b.author),
     category |-> SetOptTrim(b.category),
     isPublished |-> b.isPublished,
     tags |-> b.tags]

\* PUT /api/news/[id]
NewsIdPUT(idp, body, tbl, nid, now, fault) ==
    LET id == IdParam(idp)
    IN  IF InvalidId(id) THEN NoCall(tbl, nid, ErrorReply(400, InvalidNewsId), NoError)
        ELSE IF body = BadJson
        THEN NoCall(tbl, nid, NewsWriteCatch(JsonSyntaxError), JsonSyntaxError)
        ELSE IF body = Null
        THEN NoCall(tbl, nid, NewsWriteCatch(NullBodyTypeError), NullBodyTypeError)
        ELSE LET b == body.v
                 violated == FirstViolation(NewsPutChecks, b)
                 r == updateNews(tbl, nid, now, id.v, NewsUpdateData(b), fault)
             IN  IF violated # <<>>
                 THEN NoCall(tbl, nid, ErrorReply(400, violated), NoError)
                 ELSE IF r.thrown THEN AfterCall("updateNews", r, NewsWriteCatch(r.error))
                 ELSE IF r.value = Null
                 THEN AfterCall("updateNews", r, ErrorReply(404, NewsNotFound))
                 ELSE AfterCall("updateNews", r, Reply(200, r.value))

\* DELETE /api/news/[id] answering 204 without a body
NewsIdDELETE_NoContent(idp, tbl, nid, fault) ==
    LET id == IdParam(idp)
        r == deleteNews(tbl, nid, id.v, fault)
    IN  IF InvalidId(id) THEN NoCall(tbl, nid, ErrorReply(400, InvalidNewsId), NoError)
        ELSE IF r.thrown THEN AfterCall("deleteNews", r, ErrorReply(500, InternalServerError))
        ELSE IF ~r.value.v THEN AfterCall("deleteNews", r, ErrorReply(404, NewsNotFound))
        ELSE AfterCall("deleteNews", r,
                       [status |-> 204, contentType |-> "", body |-> [none |-> TRUE]])

\* DELETE /api/news/[id]
NewsIdDELETE(idp, tbl, nid, fault) ==
    LET id == IdParam(idp)
        r == deleteNews(tbl, nid, id.v, fault)
    IN  IF InvalidId(id) THEN NoCall(tbl, nid, ErrorReply(400, InvalidNewsId), NoError)
        ELSE IF r.thrown THEN AfterCall("deleteNews", r, PlainCatch(r.error))
        ELSE IF ~r.value.v THEN AfterCall("deleteNews", r, ErrorReply(404, NewsNotFound))
        ELSE AfterCall("deleteNews", r,
                       Reply(200, [message |-> <<"News", "article", "deleted", "successfully">>]))

(***************************************************************************)
(* Faculty repository (lib/faculty).                                       *)
(***************************************************************************)
FacultyFields == {"name", "nameEn", "title", "category", "photoUrl", "email",
                  "phone", "office", "researchInterests", "education",
                  "biography", "publications", "projects", "awards",
                  "sortOrder", "isVisible"}

\* getFacultyList: the set of outcomes
getFacultyList(tbl, nid, category, searchQuery, fault) ==
    LET cat == IF Truthy(category) THEN category ELSE Undef
        sq == IF Truthy(searchQuery) THEN searchQuery ELSE Undef
    IN  {LET q == query(Driver(fault, 1, tbl, nid, o))
         IN  IF q.thrown THEN Threw(q.error, tbl, nid, <<"SELECT">>)
             ELSE Returned(q.rows, tbl, nid, <<"SELECT">>) :
           o \in SqlSelectFacultyList(tbl, nid, cat, sq)}

getFacultyById(tbl, nid, id, fault) ==
    OfQueryOne(queryOne(Driver(fault, 1, tbl, nid, SqlSelectFacultyById(tbl, nid, id))),
               <<"SELECT">>)

searchFaculty(tbl, nid, searchQuery, fault) ==
    getFacultyList(tbl, nid, Undef, searchQuery, fault)

createFaculty(tbl, nid, now, f, fault) ==
    LET params == [c \in FacultyFields |->
                      IF c \in {"name", "title", "category", "sortOrder", "isVisible"}
                      THEN Param(f[c])
                      ELSE OrElse(f[c], Null)]
        q == queryOne(Driver(fault, 1, tbl, nid, SqlInsertFaculty(tbl, nid, now, params)))
    IN  IF q.thrown THEN Threw(q.error, q.table, q.nextId, <<"INSERT">>)
        ELSE IF q.value = Null
        THEN Threw([message |-> <<"Failed", "to", "create", "faculty", "member">>],
                   q.table, q.nextId, <<"INSERT">>)
        ELSE Returned(q.value, q.table, q.nextId, <<"INSERT">>)

updateFaculty(tbl, nid, now, id, f, fault) ==
    LET sets == Assignments(f)
    IN  IF DOMAIN sets = {} THEN getFacultyById(tbl, nid, id, fault)
        ELSE OfQueryOne(queryOne(Driver(fault, 1, tbl, nid,
                            SqlUpdate(tbl, nid, now, id, sets, FacultyNotNull, FacultyUnique))),
                        <<"UPDATE">>)

\* deleteFaculty testing result !== undefined
deleteFaculty_NotUndefined(tbl, nid, id, fault) ==
    LET q == queryOne(Driver(fault, 1, tbl, nid, SqlDeleteById(tbl, nid, id)))
    IN  IF q.thrown THEN Threw(q.error, q.table, q.nextId, <<"DELETE">>)
        ELSE Returned(Bool(q.value # Undef), q.table, q.nextId, <<"DELETE">>)

deleteFaculty(tbl, nid, id, fault) ==
    LET q == queryOne(Driver(fault, 1, tbl, nid, SqlDeleteById(tbl, nid, id)))
    IN  IF q.thrown THEN Threw(q.error, q.table, q.nextId, <<"DELETE">>)
        ELSE Returned(Bool(q.value # Null), q.table, q.nextId, <<"DELETE">>)

(***************************************************************************)
(* /api/faculty and /api/faculty/[id]                                      *)
(***************************************************************************)
FacultyBodyKeys == FacultyFields \cup {"id", "createdAt", "updatedAt"}

FacultyOptionalChecks ==
    << Check("optStringNullable", "nameEn", MustBeAString("NameEn")),
       Check("optStringNullable", "photoUrl", MustBeAString("PhotoUrl")),
       Check("optStringNullable", "email", MustBeAString("Email")),
       Check("optStringNullable", "phone", MustBeAString("Phone")),
       Check("optStringNullable", "office", MustBeAString("Office")),
       Check("optStringArrayNullable", "researchInterests",
             <<"ResearchInterests", "must", "be", "an", "array", "of", "strings">>),
       Check("optStringNullable", "education", MustBeAString("Education")),
       Check("optStringNullable", "biography", MustBeAString("Biography")),
       Check("optStringNullable", "publications", MustBeAString("Publications")),
       Check("optStringNullable", "projects", MustBeAString("Projects")),
       Check("optStringNullable", "awards", MustBeAString("Awards")),
       Check("optInteger", "sortOrder", <<"SortOrder", "must", "be", "an", "integer">>),
       Check("optBoolean", "isVisible", <<"IsVisible", "must", "be", "a", "boolean">>) >>

FacultyPostChecks ==
    << Check("required", "name", IsRequired("Name")),
       Check("required", "title", IsRequired("Title")),
       Check("required", "category", IsRequired("Category")) >>
    \o FacultyOptionalChecks

FacultyPutChecks ==
    << Check("nonEmpty", "name", MustBeNonEmpty("Name")),
       Check("nonEmpty", "title", MustBeNonEmpty("Title")),
       Check("nonEmpty", "category", MustBeNonEmpty("Category")) >>
    \o FacultyOptionalChecks \o
    << SysCheck({"id", "createdAt", "updatedAt"},
                <<"Cannot", "update", "system", "fields", "(id,", "createdAt,",
                  "updatedAt)">>) >>

FacultyNotFound == <<"Faculty", "member", "not", "found">>
InvalidFacultyId == <<"Invalid", "faculty", "ID">>

FacultyTrimmed == {"name", "title", "category"}
FacultyOptTrimmed == {"nameEn", "photoUrl", "email", "phone", "office", "education",
                      "biography", "publications", "projects", "awards"}

\* GET /api/faculty: the set of outcomes
FacultyIndexGET(q, tbl, nid, fault) ==
    LET category == OrElse(q.category, Undef)
        search == OrElse(q.search, Undef)
    IN  {IF r.thrown THEN AfterCall("getFacultyList", r, PlainCatch(r.error))
         ELSE AfterCall("getFacultyList", r,
                        Reply(200, [items |-> r.value, total |-> Num(Len(r.value))])) :
           r \in getFacultyList(tbl, nid, category, search, fault)}

\* the facultyData object POST /api/faculty builds from a validated body
FacultyData(b) ==
    [c \in FacultyFields |->
        IF c \in FacultyTrimmed THEN TrimV(b[c])
        ELSE IF c \in FacultyOptTrimmed THEN OptTrim(b[c])
        ELSE IF c = "sortOrder" THEN Coalesce(b[c], Num(0))
        ELSE IF c = "isVisible" THEN Coalesce(b[c], Bool(TRUE))
        ELSE b[c]]

\* POST /api/faculty answering a null body as a validation failure
FacultyIndexPOST_NullIs400(body, tbl, nid, now, fault) ==
    IF body = BadJson THEN NoCall(tbl, nid, PlainCatch(JsonSyntaxError), JsonSyntaxError)
    ELSE IF body = Null
    THEN NoCall(tbl, nid, ErrorReply(400, IsRequired("Name")), NoError)
    ELSE LET b == body.v
             violated == FirstViolation(FacultyPostChecks, b)
             r == createFaculty(tbl, nid, now, FacultyData(b), fault)
         IN  IF violated # <<>> THEN NoCall(tbl, nid, ErrorReply(400, violated), NoError)
             ELSE IF r.thrown THEN AfterCall("createFaculty", r, PlainCatch(r.error))
             ELSE AfterCall("createFaculty", r, Reply(201, r.value))

\* POST /api/faculty
FacultyIndexPOST(body, tbl, nid, now, fault) ==
    IF body = BadJson THEN NoCall(tbl, nid, PlainCatch(JsonSyntaxError), JsonSyntaxError)
    ELSE IF body = Null THEN NoCall(tbl, nid, PlainCatch(NullBodyTypeError), NullBodyTypeError)
    ELSE LET b == body.v
             violated == FirstViolation(FacultyPostChecks, b)
             r == createFaculty(tbl, nid, now, FacultyData(b), fault)
         IN  IF violated # <<>> THEN NoCall(tbl, nid, ErrorReply(400, violated), NoError)
             ELSE IF r.thrown THEN AfterCall("createFaculty", r, PlainCatch(r.error))
             ELSE AfterCall("createFaculty", r, Reply(201, r.value))

\* GET /api/faculty/[id]
FacultyIdGET(idp, tbl, nid, fault) ==
    LET id == IdParam(idp)
        r == getFacultyById(tbl, nid, id.v, fault)
    IN  IF InvalidId(id) THEN NoCall(tbl, nid, ErrorReply(400, InvalidFacultyId), NoError)
        ELSE IF r.thrown THEN AfterCall("getFacultyById", r, PlainCatch(r.error))
        ELSE IF r.value = Null
        THEN AfterCall("getFacultyById", r, ErrorReply(404, FacultyNotFound))
        ELSE AfterCall("getFacultyById", r, Reply(200, r.value))

\* the updateData object PUT /api/faculty/[id] builds from a validated body
FacultyUpdateData(b) ==
    [c \in FacultyFields |->
        IF c \in FacultyTrimmed THEN SetTrim(b[c])
        ELSE IF c \in FacultyOptTrimmed THEN SetOptTrim(b[c])
        ELSE b[c]]

\* PUT /api/faculty/[id]
FacultyIdPUT(idp, body, tbl, nid, now, fault) ==
    LET id == IdParam(idp)
    IN  IF InvalidId(id) THEN NoCall(tbl, nid, ErrorReply(400, InvalidFacultyId), NoError)
        ELSE IF body = BadJson
        THEN NoCall(tbl, nid, PlainCatch(JsonSyntaxError), JsonSyntaxError)
        ELSE IF body = Null
        THEN NoCall(tbl, nid, PlainCatch(NullBodyTypeError), NullBodyTypeError)
        ELSE LET b == body.v
                 violated == FirstViolation(FacultyPutChecks, b)
                 r == updateFaculty(tbl, nid, now, id.v, FacultyUpdateData(b), fault)
             IN  IF violated # <<>>
                 THEN NoCall(tbl, nid, ErrorReply(400, violated), NoError)
                 ELSE IF r.thrown THEN AfterCall("updateFaculty", r, PlainCatch(r.error))
                 ELSE IF r.value = Null
                 THEN AfterCall("updateFaculty", r, ErrorReply(404, FacultyNotFound))
                 ELSE AfterCall("updateFaculty", r, Reply(200, r.value))

\* DELETE /api/faculty/[id]
FacultyIdDELETE(idp, tbl, nid, fault) ==
    LET id == IdParam(idp)
        r == deleteFaculty(tbl, nid, id.v, fault)
    IN  IF InvalidId(id) THEN NoCall(tbl, nid, ErrorReply(400, InvalidFacultyId), NoError)
        ELSE IF r.thrown THEN AfterCall("deleteFaculty", r, PlainCatch(r.error))
        ELSE IF ~r.value.v THEN AfterCall("deleteFaculty", r, ErrorReply(404, FacultyNotFound))
        ELSE AfterCall("deleteFaculty", r,
                       Reply(200, [message |-> <<"Faculty", "member", "deleted", "successfully">>]))

(***************************************************************************)
(* Requests the model sends.  A body is a JSON object (a field that is     *)
(* absent reads as undefined), the JSON value null, or text that is not    *)
(* JSON.  Objects are a valid base payload changed in one field.           *)
(***************************************************************************)
NewsEmpty == [k \in NewsBodyKeys |-> Undef]
NewsBase == [NewsEmpty EXCEPT !.title = Str(<<"T">>), !.slug = Str(<<"a">>),
                              !.content = Str(<<"c">>)]

BadStrings == {Null, Num(1), Str(<<>>), Str(<<" ">>)}

NewsPostVariations ==
       {<<"title", v>> : v \in BadStrings \cup {Undef, Str(<<" ", "T", " ">>)}}
  \cup {<<"slug", v>> : v \in {Undef, Str(<<>>), Str(<<"A">>), Str(<<"a", " ", "b">>),
                               Str(<<"a", "@", "!">>), Str(<<"b">>)}}
  \cup {<<"content", v>> : v \in {Undef, Str(<<" ">>)}}
  \cup {<<"summary", v>> : v \in {Null, Num(1), Str(<<>>), Str(<<"z">>)}}
  \cup {<<"thumbnailUrl", v>> : v \in {Num(1), Str(<<"z">>)}}
  \cup {<<"author", v>> : v \in {Bool(TRUE), Str(<<" ">>)}}
  \cup {<<"category", v>> : v \in {Num(1), Str(<<"c">>)}}
  \cup {<<"isPublished", v>> : v \in {Null, Str(<<"t">>), Bool(FALSE), Bool(TRUE)}}
  \cup {<<"tags", v>> : v \in {Null, Str(<<"t">>), Arr(<<Num(1)>>), Arr(<<>>),
                               Arr(<<Str(<<"t">>)>>)}}
  \cup {<<"id", Num(1)>>, <<"viewCount", Num(9)>>}

\* payloads that violate several rules
NewsPostSeveral ==
    {Obj([NewsBase EXCEPT !.content = Undef, !.slug = Str(<<"A">>)]),
     Obj([NewsBase EXCEPT !.slug = Str(<<"A">>), !.summary = Num(1), !.tags = Str(<<"t">>)])}

NewsPostBodies ==
    {BadJson, Null, Obj(NewsEmpty), Obj(NewsBase)} \cup NewsPostSeveral \cup
    {Obj([NewsBase EXCEPT ![p[1]] = p[2]]) : p \in NewsPostVariations}

NewsPutVariations ==
       {<<"title", v>> : v \in BadStrings \cup {Str(<<" ", "T", " ">>)}}
  \cup {<<"slug", v>> : v \in {Null, Str(<<>>), Str(<<" ">>), Str(<<"A">>),
                               Str(<<"a", " ", "b">>), Str(<<"a", "@", "!">>),
                               Str(<<"a">>), Str(<<"b">>)}}
  \cup {<<"content", v>> : v \in {Null, Str(<<" ">>)}}
  \cup {<<"summary", v>> : v \in {Null, Num(1), Str(<<>>), Str(<<"z">>)}}
  \cup {<<"thumbnailUrl", v>> : v \in {Null, Num(1)}}
  \cup {<<"author", v>> : v \in {Null, Bool(TRUE)}}
  \cup {<<"category", v>> : v \in {Null, Num(1), Str(<<"c">>)}}
  \cup {<<"isPublished", v>> : v \in {Null, Bool(FALSE), Bool(TRUE)}}
  \cup {<<"tags", v>> : v \in {Null, Str(<<"t">>), Arr(<<Str(<<"t">>)>>)}}
  \cup {<<"id", Num(1)>>, <<"viewCount", Num(9)>>, <<"publishedAt", Str(<<"0">>)>>,
        <<"updatedAt", Str(<<"0">>)>>}

NewsPutBodies ==
    {BadJson, Null, Obj(NewsEmpty),
     Obj([NewsEmpty EXCEPT !.title = Str(<<"M">>), !.summary = Null])} \cup
    {Obj([NewsEmpty EXCEPT ![p[1]] = p[2]]) : p \in NewsPutVariations}

\* params.id: absent, or the text of the path segment
IdParams == {Undef, Str(<<"x">>), Str(<<"0">>), Str(<<"-", "1">>), Str(<<"1">>),
             Str(<<"2">>), Str(<<"9">>), Str(<<"1", "x">>)}

NewsPutRequests ==
    {[id |-> i, body |-> Obj(NewsEmpty)] : i \in IdParams} \cup
    {[id |-> Str(<<"1">>), body |-> b] : b \in NewsPutBodies} \cup
    {[id |-> Str(<<"x">>), body |-> b] :
        b \in {BadJson, Null, Obj([NewsEmpty EXCEPT !.title = Null])}} \cup
    {[id |-> i, body |-> Obj([NewsEmpty EXCEPT !.slug = v])] :
        i \in {Str(<<"2">>), Str(<<"9">>)}, v \in {Str(<<"a">>), Str(<<"b">>)}}

\* url.searchParams.get(name): null when absent
PageParams == {Null, Str(<<>>), Str(<<"0">>), Str(<<"1">>), Str(<<"2">>),
               Str(<<"-", "1">>), Str(<<"x">>), Str(<<"1", ".", "5">>)}
PageSizeParams == {Null, Str(<<>>), Str(<<"0">>), Str(<<"1">>), Str(<<"1", "0", "0">>),
                   Str(<<"1", "0", "1">>), Str(<<"x">>)}
CategoryParams == {Null, Str(<<>>), Str(<<"c">>)}

NewsListQueries ==
    {[page |-> p, pageSize |-> Null, category |-> Null] : p \in PageParams} \cup
    {[page |-> Null, pageSize |-> z, category |-> Null] : z \in PageSizeParams} \cup
    {[page |-> p, pageSize |-> Str(<<"1">>), category |-> c] :
        p \in {Str(<<"1">>), Str(<<"2">>)}, c \in CategoryParams} \cup
    {[page |-> Str(<<"x">>), pageSize |-> Str(<<"x">>), category |-> Null]}

FacultyEmpty == [k \in FacultyBodyKeys |-> Undef]
FacultyBase == [FacultyEmpty EXCEPT !.name = Str(<<"A">>), !.title = Str(<<"T">>),
                                    !.category = Str(<<"c">>)]

FacultyPostVariations ==
       {<<"name", v>> : v \in BadStrings \cup {Undef}}
  \cup {<<"title", v>> : v \in {Undef, Num(1)}}
  \cup {<<"category", v>> : v \in {Undef, Str(<<" ">>)}}
  \cup {<<"nameEn", v>> : v \in {Null, Num(1), Str(<<"a">>)}}
  \cup {<<"researchInterests", v>> : v \in {Null, Str(<<"m">>), Arr(<<Str(<<"M">>)>>)}}
  \cup {<<k, Num(1)>> : k \in FacultyOptTrimmed}
  \cup {<<"sortOrder", v>> : v \in {Null, Str(<<"1">>), Num(1)}}
  \cup {<<"isVisible", v>> : v \in {Null, Bool(FALSE)}}
  \cup {<<"id", Num(1)>>}

FacultyPostBodies ==
    {BadJson, Null, Obj(FacultyEmpty), Obj(FacultyBase)} \cup
    {Obj([FacultyBase EXCEPT ![p[1]] = p[2]]) : p \in FacultyPostVariations}

FacultyPutVariations ==
       {<<"name", v>> : v \in BadStrings \cup {Str(<<"M">>)}}
  \cup {<<"title", v>> : v \in {Null, Str(<<" ">>)}}
  \cup {<<"category", v>> : v \in {Num(1)}}
  \cup {<<"nameEn", v>> : v \in {Null, Num(1)}}
  \cup {<<"researchInterests", v>> : v \in {Null, Arr(<<Num(1)>>)}}
  \cup {<<k, Bool(TRUE)>> : k \in FacultyOptTrimmed}
  \cup {<<"sortOrder", v>> : v \in {Null, Str(<<"1">>)}}
  \cup {<<"isVisible", v>> : v \in {Str(<<"t">>), Bool(FALSE)}}
  \cup {<<"id", Num(1)>>, <<"createdAt", Str(<<"0">>)>>, <<"updatedAt", Str(<<"0">>)>>}

FacultyPutBodies ==
    {BadJson, Null, Obj(FacultyEmpty),
     Obj([FacultyEmpty EXCEPT !.title = Str(<<"M">>), !.nameEn = Null])} \cup
    {Obj([FacultyEmpty EXCEPT ![p[1]] = p[2]]) : p \in FacultyPutVariations}

FacultyPutRequests ==
    {[id |-> i, body |-> Obj(FacultyEmpty)] : i \in IdParams} \cup
    {[id |-> Str(<<"1">>), body |-> b] : b \in FacultyPutBodies} \cup
    {[id |-> Str(<<"x">>), body |-> b] :
        b \in {BadJson, Null, Obj([FacultyEmpty EXCEPT !.name = Null])}}

FacultyListQueries ==
    {[category |-> c, search |-> q] :
        c \in {Null, Str(<<"c">>)}, q \in {Null, Str(<<>>), Str(<<"a">>), Str(<<"M">>)}}

(***************************************************************************)
(* The state machine: one action per route, each handling one request from *)
(* the first statement of the handler to the response.                     *)
(***************************************************************************)
NoRequest == [none |-> TRUE]
NoResponse == [status |-> 0, contentType |-> "", body |-> [none |-> TRUE]]

Init ==
    /\ news = {}
    /\ faculty = {}
    /\ nextNewsId = 1
    /\ nextFacultyId = 1
    /\ clock = 0
    /\ writes = 0
    /\ pageContent = {}
    /\ nextPageContentId = 1
    /\ migration = NoMigration
    /\ procs = NoProcs
    /\ navigation = {}
    /\ op = "none"
    /\ req = NoRequest
    /\ resp = NoResponse
    /\ calls = <<>>
    /\ stmts = <<>>
    /\ thrown = NoError
    /\ ret = Undef

Handled(name, request, h) ==
    /\ op' = name
    /\ req' = request
    /\ resp' = h.resp
    /\ calls' = h.calls
    /\ stmts' = h.stmts
    /\ thrown' = h.thrown
    /\ ret' = h.ret

\* No handler reads or writes both tables, so a behaviour changes one of them;
\* the number of requests that change the store is capped by MaxWrites.
OnNews(name, request, h) ==
    LET changed == h.table # news \/ h.nextId # nextNewsId
    IN  /\ changed => writes < MaxWrites /\ nextFacultyId = 1
        /\ news' = h.table
        /\ nextNewsId' = h.nextId
        /\ writes' = IF changed THEN writes + 1 ELSE writes
        /\ Handled(name, request, h)
        /\ UNCHANGED <<faculty, nextFacultyId, clock, pages, runs>>

OnFaculty(name, request, h) ==
    LET changed == h.table # faculty \/ h.nextId # nextFacultyId
    IN  /\ changed => writes < MaxWrites /\ nextNewsId = 1
        /\ faculty' = h.table
        /\ nextFacultyId' = h.nextId
        /\ writes' = IF changed THEN writes + 1 ELSE writes
        /\ Handled(name, request, h)
        /\ UNCHANGED <<news, nextNewsId, clock, pages, runs>>

GetNewsIndex ==
    /\ op = "none"
    /\ \E q \in NewsListQueries, f \in ListFaults :
           \E h \in NewsIndexGET(q, news, nextNewsId, f) :
               OnNews("GET /api/news", [query |-> q], h)

PostNewsIndex ==
    /\ op = "none"
    /\ \E b \in NewsPostBodies, f \in Faults :
           OnNews("POST /api/news", [body |-> b],
                  NewsIndexPOST(b, news, nextNewsId, clock, f))

GetNewsId ==
    /\ op = "none"
    /\ \E i \in IdParams, f \in Faults :
           OnNews("GET /api/news/[id]", [id |-> i], NewsIdGET(i, news, nextNewsId, f))

PutNewsId ==
    /\ op = "none"
    /\ \E r \in NewsPutRequests, f \in Faults :
           OnNews("PUT /api/news/[id]", r,
                  NewsIdPUT(r.id, r.body, news, nextNewsId, clock, f))

DeleteNewsId ==
    /\ op = "none"
    /\ \E i \in IdParams, f \in Faults :
           OnNews("DELETE /api/news/[id]", [id |-> i], NewsIdDELETE(i, news, nextNewsId, f))

GetFacultyIndex ==
    /\ op = "none"
    /\ \E q \in FacultyListQueries, f \in Faults :
           \E h \in FacultyIndexGET(q, faculty, nextFacultyId, f) :
               OnFaculty("GET /api/faculty", [query |-> q], h)

\* failures of the INSERT of createFaculty: those of the connection, and a key
\* the table already holds (an id taken by a row loaded with an explicit id)
FacultyPostFaults == Faults \cup {[at |-> 1, e |-> UniqueViolation]}

PostFacultyIndex ==
    /\ op = "none"
    /\ \E b \in FacultyPostBodies, f \in FacultyPostFaults :
           OnFaculty("POST /api/faculty", [body |-> b],
                     FacultyIndexPOST(b, faculty, nextFacultyId, clock, f))

GetFacultyId ==
    /\ op = "none"
    /\ \E i \in IdParams, f \in Faults :
           OnFaculty("GET /api/faculty/[id]", [id |-> i],
                     FacultyIdGET(i, faculty, nextFacultyId, f))

PutFacultyId ==
    /\ op = "none"
    /\ \E r \in FacultyPutRequests, f \in Faults :
           OnFaculty("PUT /api/faculty/[id]", r,
                     FacultyIdPUT(r.id, r.body, faculty, nextFacultyId, clock, f))

DeleteFacultyId ==
    /\ op = "none"
    /\ \E i \in IdParams, f \in Faults :
           OnFaculty("DELETE /api/faculty/[id]", [id |-> i],
                     FacultyIdDELETE(i, faculty, nextFacultyId, f))

\* the response is delivered; the server keeps nothing of the request
Deliver ==
    /\ op # "none"
    /\ op' = "none"
    /\ req' = NoRequest
    /\ resp' = NoResponse
    /\ calls' = <<>>
    /\ stmts' = <<>>
    /\ thrown' = NoError
    /\ ret' = Undef
    /\ UNCHANGED <<store, runs>>

\* time passes at the store
\* CURRENT_TIMESTAMP moves on between two requests; the time before the first
\* statement that changes the store is the origin
Tick ==
    /\ op = "none"
    /\ clock < MaxClock
    /\ clock < writes
    /\ clock' = clock + 1
    /\ UNCHANGED <<news, faculty, nextNewsId, nextFacultyId, writes, pages, runs>>
    /\ UNCHANGED last

Next ==
    \/ GetNewsIndex
    \/ PostNewsIndex
    \/ GetNewsId
    \/ PutNewsId
    \/ DeleteNewsId
    \/ GetFacultyIndex
    \/ PostFacultyIndex
    \/ GetFacultyId
    \/ PutFacultyId
    \/ DeleteFacultyId
    \/ Deliver
    \/ Tick

Spec == Init /\ [][Next]_vars

(***************************************************************************)
(* Listing news over any table content: the pages call getNewsList         *)
(* directly, with a page number, a page size and an optional category.     *)
(***************************************************************************)
ListRow(i, c) ==
    [id |-> i, title |-> Str(<<"T">>), slug |-> Str(<<DigitChar(i)>>),
     summary |-> Null, content |-> Str(<<"c">>), thumbnailUrl |-> Null,
     author |-> Null, category |-> c.category, publishedAt |-> c.at,
     updatedAt |-> c.at, isPublished |-> Bool(c.published), viewCount |-> 0,
     tags |-> Null]

ListRowChoices ==
    [category : {Null, Str(<<"c">>)}, published : BOOLEAN, at : 0..MaxStamp]

ListPages == {1, 2}
ListPageSizes == {1, 2, 100}
ListCategories == {Undef, Str(<<>>), Str(<<"c">>)}

InitList ==
    \* any table of at most MaxRows rows with distinct ids and slugs
    /\ \E D \in SUBSET (1..MaxRows) : \E f \in [D -> ListRowChoices] :
           news = {ListRow(i, f[i]) : i \in D}
    /\ faculty = {}
    /\ nextNewsId = MaxRows + 1
    /\ nextFacultyId = 1
    /\ clock = MaxStamp
    /\ writes = 0
    /\ pageContent = {}
    /\ nextPageContentId = 1
    /\ migration = NoMigration
    /\ procs = NoProcs
    /\ navigation = {}
    /\ op = "none"
    /\ req = NoRequest
    /\ resp = NoResponse
    /\ calls = <<>>
    /\ stmts = <<>>
    /\ thrown = NoError
    /\ ret = Undef

CallGetNewsList ==
    /\ op = "none"
    /\ \E page \in ListPages, pageSize \in ListPageSizes, category \in ListCategories,
          f \in {NoFault, [at |-> 2, e |-> ConnectionError]} :
           \E r \in getNewsList(news, nextNewsId, Num(page), Num(pageSize), category, f) :
               /\ op' = "getNewsList"
               /\ req' = [page |-> page, pageSize |-> pageSize, category |-> category]
               /\ resp' = NoResponse
               /\ calls' = <<"getNewsList">>
               /\ stmts' = r.stmts
               /\ thrown' = r.error
               /\ ret' = IF r.thrown THEN Undef ELSE r.value
               /\ UNCHANGED <<store, runs>>

NextList == CallGetNewsList

SpecList == InitList /\ [][NextList]_vars

(***************************************************************************)
(* Page content (lib/content): one row of page_content per slug, written   *)
(* by an upsert.                                                           *)
(***************************************************************************)
\* SELECT ... FROM page_content WHERE slug = $1
SqlSelectPageBySlug(tbl, nid, slug) ==
    LET hit == {r \in tbl : r.slug = slug}
    IN  DriverRows(IF hit = {} THEN <<>> ELSE <<CHOOSE r \in hit : TRUE>>, tbl, nid)

\* an UPDATE that keeps the stored value of an optional column when the
\* parameter is NULL: SET meta_description = COALESCE($3, meta_description), ...
SqlUpdatePage_Merge(tbl, nid, now, slug, p) ==
    LET hit == {r \in tbl : r.slug = slug}
        new == {[r EXCEPT !.title = p.title, !.content = p.content,
                          !.metaDescription = IF p.metaDescription = Null THEN @
                                              ELSE p.metaDescription,
                          !.metaKeywords = IF p.metaKeywords = Null THEN @
                                           ELSE p.metaKeywords,
                          !.sidebarContent = IF p.sidebarContent = Null THEN @
                                             ELSE p.sidebarContent,
                          !.updatedBy = IF p.updatedBy = Null THEN @ ELSE p.updatedBy,
                          !.updatedAt = now] : r \in hit}
    IN  IF hit # {} /\ (p.title = Null \/ p.content = Null)
        THEN DriverThrows(NotNullViolation, tbl, nid)
        ELSE DriverRows(IF new = {} THEN <<>> ELSE <<CHOOSE r \in new : TRUE>>,
                        (tbl \ hit) \cup new, nid)

\* UPDATE page_content SET title = $1, ..., updated_at = CURRENT_TIMESTAMP
\* WHERE slug = $7 RETURNING ...
SqlUpdatePage(tbl, nid, now, slug, p) ==
    LET hit == {r \in tbl : r.slug = slug}
        new == {[r EXCEPT !.title = p.title, !.content = p.content,
                          !.metaDescription = p.metaDescription,
                          !.metaKeywords = p.metaKeywords,
                          !.sidebarContent = p.sidebarContent,
                          !.updatedBy = p.updatedBy, !.updatedAt = now] : r \in hit}
    IN  IF hit # {} /\ (p.title = Null \/ p.content = Null)
        THEN DriverThrows(NotNullViolation, tbl, nid)
        ELSE DriverRows(IF new = {} THEN <<>> ELSE <<CHOOSE r \in new : TRUE>>,
                        (tbl \ hit) \cup new, nid)

\* the INSERT into a table without the UNIQUE constraint of slug
SqlInsertPage_NotUnique(tbl, nid, now, slug, p) ==
    IF slug = Null \/ p.title = Null \/ p.content = Null
    THEN DriverThrows(NotNullViolation, tbl, nid + 1)
    ELSE LET row == [id |-> nid, slug |-> slug, title |-> p.title,
                     content |-> p.content, metaDescription |-> p.metaDescription,
                     metaKeywords |-> p.metaKeywords,
                     sidebarContent |-> p.sidebarContent,
                     updatedAt |-> now, updatedBy |-> p.updatedBy]
         IN  DriverRows(<<row>>, tbl \cup {row}, nid + 1)

\* INSERT INTO page_content (slug, title, ...) VALUES (...) RETURNING ...
SqlInsertPage(tbl, nid, now, slug, p) ==
    IF slug = Null \/ p.title = Null \/ p.content = Null
    THEN DriverThrows(NotNullViolation, tbl, nid + 1)
    ELSE IF \E r \in tbl : r.slug = slug
    THEN DriverThrows(UniqueViolation, tbl, nid + 1)
    ELSE LET row == [id |-> nid, slug |-> slug, title |-> p.title,
                     content |-> p.content, metaDescription |-> p.metaDescription,
                     metaKeywords |-> p.metaKeywords,
                     sidebarContent |-> p.sidebarContent,
                     updatedAt |-> now, updatedBy |-> p.updatedBy]
         IN  DriverRows(<<row>>, tbl \cup {row}, nid + 1)

getPageContent(tbl, nid, slug, fault) ==
    OfQueryOne(queryOne(Driver(fault, 1, tbl, nid, SqlSelectPageBySlug(tbl, nid, slug))),
               <<"SELECT">>)

\* the parameters both statements of updatePageContent bind
PageContentParams(c) ==
    [title |-> Param(c.title), content |-> Param(c.content),
     metaDescription |-> OrElse(c.metaDescription, Null),
     metaKeywords |-> OrElse(c.metaKeywords, Null),
     sidebarContent |-> OrElse(c.sidebarContent, Null),
     updatedBy |-> OrElse(c.updatedBy, Null)]

\* updatePageContent without the lookup: the INSERT whatever the table holds
updatePageContent_InsertOnly(tbl, nid, now, slug, c, fault) ==
    LET q == queryOne(Driver(fault, 2, tbl, nid,
                             SqlInsertPage(tbl, nid, now, slug, PageContentParams(c))))
    IN  IF q.thrown THEN Threw(q.error, q.table, q.nextId, <<"INSERT">>)
        ELSE Returned(q.value, q.table, q.nextId, <<"INSERT">>)

\* updatePageContent after its lookup has answered existing: the UPDATE or
\* the INSERT, as a second round trip to the store
updatePageContentWrite(tbl, nid, now, slug, c, existing, fault) ==
    LET upd == queryOne(Driver(fault, 2, tbl, nid,
                               SqlUpdatePage(tbl, nid, now, slug, PageContentParams(c))))
        ins == queryOne(Driver(fault, 2, tbl, nid,
                               SqlInsertPage(tbl, nid, now, slug, PageContentParams(c))))
    IN  IF existing # Null
        THEN IF upd.thrown
             THEN Threw(upd.error, upd.table, upd.nextId, <<"SELECT", "UPDATE">>)
             ELSE IF upd.value = Null
             THEN Threw([message |-> <<"Failed", "to", "update", "page", "content">>],
                        upd.table, upd.nextId, <<"SELECT", "UPDATE">>)
             ELSE Returned(upd.value, upd.table, upd.nextId, <<"SELECT", "UPDATE">>)
        ELSE IF ins.thrown
             THEN Threw(ins.error, ins.table, ins.nextId, <<"SELECT", "INSERT">>)
             ELSE IF ins.value = Null
             THEN Threw([message |-> <<"Failed", "to", "create", "page", "content">>],
                        ins.table, ins.nextId, <<"SELECT", "INSERT">>)
             ELSE Returned(ins.value, ins.table, ins.nextId, <<"SELECT", "INSERT">>)

updatePageContent(tbl, nid, now, slug, c, fault) ==
    LET existing == getPageContent(tbl, nid, slug, fault)
    IN  IF existing.thrown THEN existing
        ELSE updatePageContentWrite(tbl, nid, now, slug, c, existing.value, fault)

\* the slugs and the contents the pages are written with
PageSlugs == {Str(<<"a">>), Str(<<"b">>)}
PageContents ==
    [title : {Str(<<"T">>), Str(<<"M">>)}, content : {Str(<<"c">>), Str(<<"z">>)},
     metaDescription : {Undef, Str(<<>>), Str(<<"m">>)}, metaKeywords : {Undef},
     sidebarContent : {Undef}, updatedBy : {Undef}]

\* the outcome r of a call of name with arguments request
Called(name, request, r) ==
    /\ op' = name
    /\ req' = request
    /\ resp' = NoResponse
    /\ calls' = <<name>>
    /\ stmts' = r.stmts
    /\ thrown' = r.error
    /\ ret' = IF r.thrown THEN Undef ELSE r.value

CallUpdatePageContent ==
    /\ op = "none"
    /\ \E slug \in PageSlugs, c \in PageContents, f \in ListFaults :
         LET r == updatePageContent(pageContent, nextPageContentId, clock, slug, c, f)
             changed == r.table # pageContent \/ r.nextId # nextPageContentId
         IN  /\ changed => writes < MaxWrites
             /\ pageContent' = r.table
             /\ nextPageContentId' = r.nextId
             /\ writes' = IF changed THEN writes + 1 ELSE writes
             /\ Called("updatePageContent", [slug |-> slug, content |-> c], r)
             /\ UNCHANGED <<news, faculty, nextNewsId, nextFacultyId, clock, navigation, runs>>

CallGetPageContent ==
    /\ op = "none"
    /\ \E slug \in PageSlugs, f \in Faults :
         /\ Called("getPageContent", [slug |-> slug],
                   getPageContent(pageContent, nextPageContentId, slug, f))
         /\ UNCHANGED <<store, runs>>

NextPage ==
    \/ CallUpdatePageContent
    \/ CallGetPageContent
    \/ Deliver
    \/ Tick

SpecPage == Init /\ [][NextPage]_vars

(***************************************************************************)
(* Navigation (lib/navigation).  The tree getNavigationStructure returns   *)
(* is a list of references to items that hold lists of references: roots   *)
(* is the list of the ids of the root items, items maps an id to its item, *)
(* whose children is the list of the ids of its children.                  *)
(***************************************************************************)
NavLabel(i) == Str(<<"L", DigitChar(i)>>)
NavUrl(i) == Str(<<"p", DigitChar(i)>>)

\* the orders ORDER BY sort_order may produce when the store does not sort
NavOrders_Unsorted(rows) ==
    {s \in [1..Cardinality(rows) -> rows] :
        \A i, j \in 1..Cardinality(rows) : i # j => s[i] # s[j]}

\* the orders ORDER BY sort_order ASC may produce (ties in any order)
NavOrders(rows) ==
    {s \in [1..Cardinality(rows) -> rows] :
        /\ \A i, j \in 1..Cardinality(rows) : i # j => s[i] # s[j]
        /\ \A i, j \in 1..Cardinality(rows) :
              i < j => s[i].sortOrder <= s[j].sortOrder}

\* SELECT ... FROM navigation WHERE is_visible = true ORDER BY sort_order ASC:
\* the set of outcomes
SqlSelectNavigation(tbl) ==
    {DriverRows(s, tbl, 1) : s \in NavOrders({r \in tbl : r.isVisible = Bool(TRUE)})}

\* the second pass over rows from the i-th on: kids maps the id of an item of
\* navMap to its children so far, roots is rootItems so far
RECURSIVE BuildHierarchy(_, _, _, _)
BuildHierarchy(rows, i, kids, roots) ==
    IF i > Len(rows) THEN [kids |-> kids, roots |-> roots]
    ELSE LET row == rows[i]
         IN  IF Truthy(row.parentId)
             THEN IF row.parentId.v \in DOMAIN kids
                  THEN BuildHierarchy(rows, i + 1,
                           [kids EXCEPT ![row.parentId.v] = Append(@, row.id)], roots)
                  ELSE BuildHierarchy(rows, i + 1, kids, roots)
             ELSE BuildHierarchy(rows, i + 1, kids, Append(roots, row.id))

\* the tree built from the fetched rows
NavTree(rows) ==
    LET ids == {rows[i].id : i \in 1..Len(rows)}
        row(id) == CHOOSE r \in Range(rows) : r.id = id
        h == BuildHierarchy(rows, 1, [id \in ids |-> <<>>], <<>>)
    IN  [roots |-> h.roots,
         items |-> [id \in ids |->
                      [id |-> id, label |-> row(id).label, url |-> row(id).url,
                       parentId |-> row(id).parentId, sortOrder |-> row(id).sortOrder,
                       isVisible |-> row(id).isVisible, icon |-> row(id).icon,
                       description |-> row(id).description,
                       children |-> Arr(h.kids[id])]]]

\* six visible root items, ids and sortOrder 1..6, nothing else set
getDefaultNavigation ==
    [roots |-> <<1, 2, 3, 4, 5, 6>>,
     items |-> [id \in 1..6 |->
                  [id |-> id, label |-> NavLabel(id), url |-> NavUrl(id),
                   parentId |-> Undef, sortOrder |-> id, isVisible |-> Bool(TRUE),
                   icon |-> Undef, description |-> Undef, children |-> Undef]]]

\* getNavigationStructure without the catch block
getNavigationStructure_NoCatch(tbl, fault) ==
    {IF q.thrown THEN Threw(q.error, tbl, 1, <<"SELECT">>)
     ELSE Returned(NavTree(q.rows), tbl, 1, <<"SELECT">>) :
       q \in {query(Driver(fault, 1, tbl, 1, o)) : o \in SqlSelectNavigation(tbl)}}

\* getNavigationStructure: the set of outcomes; error is the error caught
getNavigationStructure(tbl, fault) ==
    {IF q.thrown
     THEN [Returned(getDefaultNavigation, tbl, 1, <<"SELECT">>) EXCEPT !.error = q.error]
     ELSE Returned(NavTree(q.rows), tbl, 1, <<"SELECT">>) :
       q \in {query(Driver(fault, 1, tbl, 1, o)) : o \in SqlSelectNavigation(tbl)}}

\* flattenHierarchy: the ids met from the list ids down through children;
\* depth bounds the descent by the number of items
RECURSIVE Traverse(_, _, _)
Traverse(ids, items, depth) ==
    IF ids = <<>> \/ depth = 0 THEN <<>>
    ELSE LET item == items[Head(ids)]
             below == IF item.children.t = "array" /\ item.children.v # <<>>
                      THEN Traverse(item.children.v, items, depth - 1)
                      ELSE <<>>
         IN  <<item.id>> \o below \o Traverse(Tail(ids), items, depth)

flattenHierarchy(tree) ==
    Traverse(tree.roots, tree.items, Cardinality(DOMAIN tree.items))

\* a row of navigation: parent 0 stands for no parent
NavRow(i, c) ==
    [id |-> i, label |-> NavLabel(i), url |-> NavUrl(i),
     parentId |-> IF c.parent = 0 THEN Null ELSE Num(c.parent),
     sortOrder |-> c.sortOrder, isVisible |-> Bool(c.visible),
     icon |-> Null, description |-> Null]

NavSortOrders == {1, 2}

\* the rows that hold what the default navigation shows
DefaultNavRows ==
    {[id |-> i, label |-> NavLabel(i), url |-> NavUrl(i), parentId |-> Null,
      sortOrder |-> i, isVisible |-> Bool(TRUE), icon |-> Null,
      description |-> Null] : i \in 1..6}

\* any table of at most MaxRows rows with distinct ids whose parent_id
\* references a row of the table, or the rows of the default navigation
InitNav ==
    /\ \/ \E D \in SUBSET (1..MaxRows) :
            \E f \in [D -> [parent : {0} \cup D, visible : BOOLEAN,
                            sortOrder : NavSortOrders]] :
               navigation = {NavRow(i, f[i]) : i \in D}
       \/ navigation = DefaultNavRows
    /\ news = {}
    /\ faculty = {}
    /\ nextNewsId = 1
    /\ nextFacultyId = 1
    /\ clock = 0
    /\ writes = 0
    /\ pageContent = {}
    /\ nextPageContentId = 1
    /\ migration = NoMigration
    /\ procs = NoProcs
    /\ op = "none"
    /\ req = NoRequest
    /\ resp = NoResponse
    /\ calls = <<>>
    /\ stmts = <<>>
    /\ thrown = NoError
    /\ ret = Undef

CallGetNavigationStructure ==
    /\ op = "none"
    /\ \E f \in Faults : \E r \in getNavigationStructure(navigation, f) :
         /\ Called("getNavigationStructure", NoRequest, r)
         /\ UNCHANGED <<store, runs>>

NextNav == CallGetNavigationStructure

SpecNav == InitNav /\ [][NextNav]_vars

(***************************************************************************)
(* The migration script (scripts/migrate) and scripts/init-db.sql.         *)
(* A file is a sequence of lines: a comment line ("-- ..."), a blank line, *)
(* or a statement, which ends with the semicolon.                          *)
(***************************************************************************)
MaxItems == 3

Comment == [k |-> "comment"]
Blank == [k |-> "blank"]
CreateTable(t) == [k |-> "table", name |-> t]
CreateIndex(i, t) == [k |-> "index", name |-> i, on |-> t]
IsStatement(x) == x.k \in {"table", "index"}

\* scripts/init-db.sql
InitDbSql ==
    << Comment, Comment, Blank,
       Comment, CreateTable("news"), Blank,
       Comment, CreateIndex("idx_news_published_at", "news"),
       CreateIndex("idx_news_category", "news"),
       CreateIndex("idx_news_slug", "news"), Blank,
       Comment, CreateTable("faculty"), Blank,
       Comment, CreateIndex("idx_faculty_category", "faculty"),
       CreateIndex("idx_faculty_sort_order", "faculty"), Blank,
       Comment, CreateTable("page_content"), Blank,
       Comment, CreateIndex("idx_page_content_slug", "page_content"), Blank,
       Comment, CreateTable("navigation"), Blank,
       Comment, CreateIndex("idx_navigation_parent", "navigation"),
       CreateIndex("idx_navigation_sort_order", "navigation") >>

\* sqlContent.split(';'): the pieces between the semicolons, the last included
RECURSIVE SplitSemicolon(_, _)
SplitSemicolon(file, piece) ==
    IF file = <<>> THEN <<piece>>
    ELSE IF IsStatement(Head(file))
    THEN <<Append(piece, Head(file))>> \o SplitSemicolon(Tail(file), <<>>)
    ELSE SplitSemicolon(Tail(file), Append(piece, Head(file)))

\* s.trim(): without the white space at both ends
RECURSIVE TrimPiece(_)
TrimPiece(piece) ==
    IF piece = <<>> THEN <<>>
    ELSE IF Head(piece) = Blank THEN TrimPiece(Tail(piece))
    ELSE IF piece[Len(piece)] = Blank THEN TrimPiece(SubSeq(piece, 1, Len(piece) - 1))
    ELSE piece

\* s.length > 0 && !s.startsWith('--')
KeptPiece(piece) == piece # <<>> /\ Head(piece) # Comment

\* the statements the script executes: split(';'), trim, filter
MigrationStatements(file) ==
    LET pieces == [i \in 1..Len(SplitSemicolon(file, <<>>)) |->
                      TrimPiece(SplitSemicolon(file, <<>>)[i])]
    IN  SelectSeq(pieces, KeptPiece)

\* the statement of a piece, comments are not executed
StatementOf(piece) == piece[Len(piece)]

\* the store's answer to a statement: CREATE ... IF NOT EXISTS; an index on a
\* table that does not exist is an error
ExecuteDdl(m, x) ==
    IF x.k = "table" THEN [m EXCEPT !.tables = @ \cup {x.name}, !.executed = Append(@, x)]
    ELSE IF x.on \in m.tables
    THEN [m EXCEPT !.indexes = @ \cup {x.name}, !.executed = Append(@, x)]
    ELSE [m EXCEPT !.pc = "failed", !.executed = Append(@, x)]

\* the lines of the files the script is run on
FileLines == {Comment, Blank, CreateTable("news"), CreateIndex("idx_news_slug", "news")}
RECURSIVE FilesUpTo(_)
FilesUpTo(n) ==
    IF n = 0 THEN {<<>>}
    ELSE FilesUpTo(n - 1) \cup
         {Append(f, x) : f \in {g \in FilesUpTo(n - 1) : Len(g) = n - 1}, x \in FileLines}
MigrationFiles == FilesUpTo(MaxItems) \cup {InitDbSql}

EmptyStore ==
    /\ news = {}
    /\ faculty = {}
    /\ nextNewsId = 1
    /\ nextFacultyId = 1
    /\ clock = 0
    /\ writes = 0
    /\ pageContent = {}
    /\ nextPageContentId = 1
    /\ navigation = {}

NothingHandled ==
    /\ op = "none"
    /\ req = NoRequest
    /\ resp = NoResponse
    /\ calls = <<>>
    /\ stmts = <<>>
    /\ thrown = NoError
    /\ ret = Undef

\* the script is started on a file, against an empty database, with
\* DATABASE_URL set or not
InitMigrate ==
    /\ \E f \in MigrationFiles, url \in BOOLEAN :
           migration = [pc |-> "start", file |-> f, databaseUrl |-> url,
                        statements |-> <<>>, executed |-> <<>>,
                        tables |-> {}, indexes |-> {}]
    /\ procs = NoProcs
    /\ EmptyStore
    /\ NothingHandled

\* migrate(), up to the loop: process.exit(1) without DATABASE_URL
MigrateRead ==
    /\ migration.pc = "start"
    /\ migration' =
          IF ~migration.databaseUrl THEN [migration EXCEPT !.pc = "exit"]
          ELSE [migration EXCEPT !.pc = "loop",
                                 !.statements = MigrationStatements(migration.file)]
    /\ UNCHANGED <<store, procs, last>>

\* one round of the loop: await sql(statement); an error leaves through catch
MigrateExecute ==
    /\ migration.pc = "loop"
    /\ Len(migration.executed) < Len(migration.statements)
    /\ migration' = ExecuteDdl(migration,
                       StatementOf(migration.statements[Len(migration.executed) + 1]))
    /\ UNCHANGED <<store, procs, last>>

\* after the loop: the script reports success
MigrateComplete ==
    /\ migration.pc = "loop"
    /\ Len(migration.executed) = Len(migration.statements)
    /\ migration' = [migration EXCEPT !.pc = "success"]
    /\ UNCHANGED <<store, procs, last>>

NextMigrate == MigrateRead \/ MigrateExecute \/ MigrateComplete

SpecMigrate == InitMigrate /\ [][NextMigrate]_vars

(***************************************************************************)
(* Concurrent calls.  Each await of a repository function is a round trip  *)
(* to the store; the round trips of the calls in progress interleave in    *)
(* any order, and each statement is atomic at the store.                   *)
(***************************************************************************)
Callers == {1, 2}

\* the contents two concurrent calls of updatePageContent write
RaceContents ==
    {[title |-> Str(<<t>>), content |-> Str(<<"c">>), metaDescription |-> Undef,
      metaKeywords |-> Undef, sidebarContent |-> Undef, updatedBy |-> Undef] :
        t \in {"T", "M"}}

\* the page a table holds before the calls
StoredPage(slug) ==
    [id |-> 1, slug |-> slug, title |-> Str(<<"T">>), content |-> Str(<<"z">>),
     metaDescription |-> Str(<<"m">>), metaKeywords |-> Null, sidebarContent |-> Null,
     updatedAt |-> 0, updatedBy |-> Null]

\* two calls of updatePageContent are started, on a table that is empty or
\* holds one page
InitUpsert ==
    /\ \E slugs \in [Callers -> PageSlugs], cs \in [Callers -> RaceContents] :
           procs = [p \in Callers |->
                       [pc |-> "lookup", slug |-> slugs[p], content |-> cs[p],
                        existing |-> Undef, thrown |-> FALSE, error |-> NoError,
                        value |-> Undef, stmts |-> <<>>]]
    /\ \/ pageContent = {} /\ nextPageContentId = 1
       \/ \E slug \in PageSlugs : pageContent = {StoredPage(slug)} /\ nextPageContentId = 2
    /\ migration = NoMigration
    /\ news = {}
    /\ faculty = {}
    /\ nextNewsId = 1
    /\ nextFacultyId = 1
    /\ clock = 1
    /\ writes = 0
    /\ navigation = {}
    /\ NothingHandled

\* const existing = await getPageContent(slug)
UpsertLookup(p) ==
    /\ procs[p].pc = "lookup"
    /\ LET r == getPageContent(pageContent, nextPageContentId, procs[p].slug, NoFault)
       IN  procs' = [procs EXCEPT ![p].pc = IF r.thrown THEN "done" ELSE "write",
                                  ![p].existing = r.value,
                                  ![p].thrown = r.thrown,
                                  ![p].error = r.error,
                                  ![p].stmts = r.stmts]
    /\ UNCHANGED <<store, migration, last>>

\* the UPDATE or the INSERT chosen by what the lookup answered
UpsertWrite(p) ==
    /\ procs[p].pc = "write"
    /\ LET r == updatePageContentWrite(pageContent, nextPageContentId, clock,
                                       procs[p].slug, procs[p].content,
                                       procs[p].existing, NoFault)
       IN  /\ pageContent' = r.table
           /\ nextPageContentId' = r.nextId
           /\ writes' = writes + 1
           /\ procs' = [procs EXCEPT ![p].pc = "done",
                                     ![p].thrown = r.thrown,
                                     ![p].error = r.error,
                                     ![p].value = IF r.thrown THEN Undef ELSE r.value,
                                     ![p].stmts = r.stmts]
    /\ UNCHANGED <<news, faculty, nextNewsId, nextFacultyId, clock, navigation,
                   migration, last>>

NextUpsert ==
    \/ \E p \in Callers : UpsertLookup(p)
    \/ \E p \in Callers : UpsertWrite(p)

SpecUpsert == InitUpsert /\ [][NextUpsert]_vars

\* Calls of one statement each: incrementViewCount, updateNews, updateFaculty.
MaxCalls == 3

NoNewsData == [c \in NewsFields |-> Undef]
NoFacultyData == [c \in FacultyFields |-> Undef]

\* the calls started together
CallChoices ==
       {[fn |-> "incrementViewCount", id |-> i, data |-> <<>>] : i \in {1, 2}}
  \cup {[fn |-> "updateNews", id |-> 1, data |-> n] :
           n \in {[NoNewsData EXCEPT !.title = Str(<<"M">>)],
                  [NoNewsData EXCEPT !.title = Str(<<"A">>)],
                  [NoNewsData EXCEPT !.isPublished = Bool(FALSE)]}}
  \cup {[fn |-> "updateFaculty", id |-> 1, data |-> f] :
           f \in {[NoFacultyData EXCEPT !.name = Str(<<"M">>)],
                  [NoFacultyData EXCEPT !.title = Str(<<"M">>)]}}

\* up to MaxCalls calls are started on a news table and a faculty table of
\* one row each (id 1), written at time 0; the clock shows 1
InitCalls ==
    /\ \E k \in 1..MaxCalls : \E c \in [1..k -> CallChoices] :
           procs = [p \in 1..k |->
                       [pc |-> "call", fn |-> c[p].fn, id |-> c[p].id, data |-> c[p].data,
                        thrown |-> FALSE, error |-> NoError, value |-> Undef]]
    /\ \E v \in {0, 1} :
           news = {[ListRow(1, [category |-> Null, published |-> TRUE, at |-> 0])
                      EXCEPT !.viewCount = v]}
    /\ nextNewsId = 2
    /\ faculty = createFaculty({}, 1, 0, FacultyData(FacultyBase), NoFault).table
    /\ nextFacultyId = 2
    /\ clock = 1
    /\ writes = 0
    /\ pageContent = {}
    /\ nextPageContentId = 1
    /\ navigation = {}
    /\ migration = NoMigration
    /\ NothingHandled

\* the call p has ended with outcome r
Ended(p, r) ==
    procs' = [procs EXCEPT ![p].pc = "done", ![p].thrown = r.thrown,
                           ![p].error = r.error,
                           ![p].value = IF r.thrown THEN Undef ELSE r.value]

RunIncrementViewCount(p) ==
    /\ procs[p].pc = "call" /\ procs[p].fn = "incrementViewCount"
    /\ LET r == incrementViewCount(news, nextNewsId, clock, procs[p].id, NoFault)
       IN  /\ news' = r.table
           /\ writes' = IF r.table # news THEN writes + 1 ELSE writes
           /\ Ended(p, r)
    /\ UNCHANGED <<faculty, nextNewsId, nextFacultyId, clock, pages, migration, last>>

RunUpdateNews(p) ==
    /\ procs[p].pc = "call" /\ procs[p].fn = "updateNews"
    /\ LET r == updateNews(news, nextNewsId, clock, procs[p].id, procs[p].data, NoFault)
       IN  /\ news' = r.table
           /\ writes' = IF r.table # news THEN writes + 1 ELSE writes
           /\ Ended(p, r)
    /\ UNCHANGED <<faculty, nextNewsId, nextFacultyId, clock, pages, migration, last>>

RunUpdateFaculty(p) ==
    /\ procs[p].pc = "call" /\ procs[p].fn = "updateFaculty"
    /\ LET r == updateFaculty(faculty, nextFacultyId, clock, procs[p].id, procs[p].data,
                              NoFault)
       IN  /\ faculty' = r.table
           /\ writes' = IF r.table # faculty THEN writes + 1 ELSE writes
           /\ Ended(p, r)
    /\ UNCHANGED <<news, nextNewsId, nextFacultyId, clock, pages, migration, last>>

NextCalls ==
    \/ \E p \in DOMAIN procs : RunIncrementViewCount(p)
    \/ \E p \in DOMAIN procs : RunUpdateNews(p)
    \/ \E p \in DOMAIN procs : RunUpdateFaculty(p)

SpecCalls == InitCalls /\ [][NextCalls]_vars

\* A call of getNewsList and a concurrent write of the news table.
\* the concurrent write: a create, a delete, or a publish / unpublish
WriteChoices ==
       {[fn |-> "createNews", id |-> 0, data |-> NewsData(NewsBase)]}
  \cup {[fn |-> "deleteNews", id |-> i, data |-> <<>>] : i \in 1..MaxRows}
  \cup {[fn |-> "updateNews", id |-> i, data |-> [NoNewsData EXCEPT !.isPublished = Bool(b)]] :
           i \in 1..MaxRows, b \in BOOLEAN}

InitRead ==
    /\ \E D \in SUBSET (1..MaxRows) : \E b \in [D -> BOOLEAN] :
           news = {ListRow(i, [category |-> Null, published |-> b[i], at |-> i]) : i \in D}
    /\ nextNewsId = MaxRows + 1
    /\ \E size \in ListPageSizes, w \in WriteChoices :
           procs = [reader |-> [pc |-> "page", pageSize |-> size, items |-> <<>>,
                                between |-> FALSE, thrown |-> FALSE, error |-> NoError,
                                value |-> Undef],
                    writer |-> [pc |-> "call", fn |-> w.fn, id |-> w.id, data |-> w.data,
                                thrown |-> FALSE]]
    /\ faculty = {}
    /\ nextFacultyId = 1
    /\ clock = MaxRows + 1
    /\ writes = 0
    /\ pageContent = {}
    /\ nextPageContentId = 1
    /\ navigation = {}
    /\ migration = NoMigration
    /\ NothingHandled

\* const items = await query(queryText, params)
ReadPage ==
    /\ procs.reader.pc = "page"
    /\ \E items \in getNewsListItems(news, nextNewsId, Num(1), Num(procs.reader.pageSize),
                                     Undef, NoFault) :
           procs' = [procs EXCEPT !.reader.pc = "count", !.reader.items = items]
    /\ UNCHANGED <<store, migration, last>>

\* const countResult = await queryOne(countQuery, countParams); return
ReadCount ==
    /\ procs.reader.pc = "count"
    /\ LET r == getNewsListTotal(news, nextNewsId, Undef, procs.reader.items, NoFault)
       IN  procs' = [procs EXCEPT !.reader.pc = "done", !.reader.thrown = r.thrown,
                                  !.reader.error = r.error, !.reader.value = r.value]
    /\ UNCHANGED <<store, migration, last>>

\* the statement of the concurrent createNews, deleteNews or updateNews
WriteNews ==
    /\ procs.writer.pc = "call"
    /\ LET w == procs.writer
           r == CASE w.fn = "createNews" ->
                       createNews(news, nextNewsId, clock, w.data, NoFault)
                  [] w.fn = "deleteNews" -> deleteNews(news, nextNewsId, w.id, NoFault)
                  [] w.fn = "updateNews" ->
                       updateNews(news, nextNewsId, clock, w.id, w.data, NoFault)
       IN  /\ news' = r.table
           /\ nextNewsId' = r.nextId
           /\ writes' = IF r.table # news THEN writes + 1 ELSE writes
           /\ procs' = [procs EXCEPT !.writer.pc = "done", !.writer.thrown = r.thrown,
                                     !.reader.between =
                                         (procs.reader.pc = "count" /\ r.table # news)]
    /\ UNCHANGED <<faculty, nextFacultyId, clock, pages, migration, last>>

NextRead == ReadPage \/ ReadCount \/ WriteNews

SpecRead == InitRead /\ [][NextRead]_vars

(***************************************************************************)
(* Properties.                                                             *)
(***************************************************************************)
NewsByIdRoutes == {"GET /api/news/[id]", "PUT /api/news/[id]", "DELETE /api/news/[id]"}
FacultyByIdRoutes ==
    {"GET /api/faculty/[id]", "PUT /api/faculty/[id]", "DELETE /api/faculty/[id]"}

\* the words w occur in msg, in this order and next to each other
HasWords(msg, w) == Contains(msg, w)

\* the error is a uniqueness conflict by its message
IsConflict(e) == Includes(e.message, "duplicate") \/ Includes(e.message, "unique")

\* the message of the driver's error inside the message of the executor's error
WrapPrefix == <<"Database", "operation", "failed:">>
Underlying(m) ==
    IF Len(m) > 3 /\ SubSeq(m, 1, 3) = WrapPrefix THEN SubSeq(m, 4, Len(m)) ELSE m

\* the error is a failure of the connection to the store
ConnectionFailed(e) ==
    e.message \in {WrapPrefix \o ConnectionError.message, WrapPrefix \o <<"Unknown", "error">>}

\* C1: a response with status 400 is produced before any repository
\* operation: the request that got it invoked no repository function and
\* sent no statement to the store.
Thm_C1 == resp.status = 400 => calls = <<>> /\ stmts = <<>>

Wit_C1 ==
    /\ op = "PUT /api/news/[id]"
    /\ resp.status = 400
    /\ req.id = Str(<<"1">>)
    /\ HasId(news, 1)
    /\ req.body.t = "object"
    /\ req.body.v.viewCount # Undef

\* C2: when createNews or updateNews fails with an error whose message
\* contains "duplicate" or "unique", POST /api/news and PUT /api/news/[id]
\* answer 409 with a message containing "already exists", and no two rows
\* of the table share a slug.
Thm_C2 ==
    (op \in {"POST /api/news", "PUT /api/news/[id]"} /\ calls # <<>> /\ IsConflict(thrown))
    => /\ resp.status = 409
       /\ HasWords(resp.body.error, <<"already", "exists">>)
       /\ \A r1, r2 \in news : r1.slug = r2.slug => r1.id = r2.id

Wit_C2 ==
    /\ op = "PUT /api/news/[id]"
    /\ calls = <<"updateNews">>
    /\ thrown.message = WrapPrefix \o UniqueViolation.message
    /\ resp.status = 409
    /\ Cardinality(news) = 2

\* C3: for GET, PUT with a valid body, and DELETE by id, on news and on
\* faculty, with an id that parses as a positive integer and that no row
\* has, the repository returns null (false for delete) without throwing and
\* the response is 404 "... not found", unless the connection to the store
\* fails.
Thm_C3 ==
    [][(/\ op' \in NewsByIdRoutes \cup FacultyByIdRoutes
        /\ IdParam(req'.id).t = "number"
        /\ IdParam(req'.id).v >= 1
        /\ op' = "PUT /api/news/[id]" =>
              req'.body.t = "object" /\ FirstViolation(NewsPutChecks, req'.body.v) = <<>>
        /\ op' = "PUT /api/faculty/[id]" =>
              req'.body.t = "object" /\ FirstViolation(FacultyPutChecks, req'.body.v) = <<>>
        /\ ~HasId(IF op' \in NewsByIdRoutes THEN news ELSE faculty, IdParam(req'.id).v)
        /\ ~ConnectionFailed(thrown'))
       => /\ thrown' = NoError
          /\ Len(calls') = 1
          /\ ret' = IF op' \in {"DELETE /api/news/[id]", "DELETE /api/faculty/[id]"}
                    THEN Bool(FALSE) ELSE Null
          /\ resp'.status = 404
          /\ HasWords(resp'.body.error, <<"not", "found">>)
          /\ news' = news /\ faculty' = faculty]_vars

Wit_C3 ==
    /\ op = "DELETE /api/faculty/[id]"
    /\ req.id = Str(<<"2">>)
    /\ faculty # {}
    /\ ret = Bool(FALSE)
    /\ resp.status = 404

\* C4: when the repository call of a route throws an error that is not a
\* uniqueness conflict, the response is 500 with body exactly
\* {error: "Internal server error"}; and whatever error a route catches,
\* neither its message nor the message of the driver's error inside it
\* occurs in the response body.
Thm_C4 ==
    thrown # NoError
    => /\ (calls # <<>> /\ ~IsConflict(thrown))
             => resp = ErrorReply(500, InternalServerError)
       /\ DOMAIN resp.body = {"error"}
       /\ ~Contains(resp.body.error, thrown.message)
       /\ ~Contains(resp.body.error, Underlying(thrown.message))

Wit_C4 ==
    /\ op = "POST /api/faculty"
    /\ calls = <<"createFaculty">>
    /\ thrown.message = WrapPrefix \o ConnectionError.message
    /\ resp.status = 500

\* C5: every response of a news or faculty route has Content-Type
\* application/json and a status among 200, 201, 400, 404, 409, 500, and
\* every response with status >= 400 has a body {error: s} with s a
\* non-empty string.
Thm_C5 ==
    op # "none"
    => /\ resp.contentType = "application/json"
       /\ resp.status \in {200, 201, 400, 404, 409, 500}
       /\ resp.status >= 400 => DOMAIN resp.body = {"error"} /\ resp.body.error # <<>>
       /\ resp.status < 400 => "error" \notin DOMAIN resp.body

Wit_C5 ==
    /\ op = "DELETE /api/news/[id]"
    /\ resp.status = 200
    /\ ret = Bool(TRUE)


\* the text of a query parameter is a decimal integer between lo and hi
IntegerText(x, lo, hi) ==
    /\ x.t = "string"
    /\ x.v # <<>>
    /\ \A i \in 1..Len(x.v) : x.v[i] \in Digits
    /\ DigitsValue(x.v) >= lo
    /\ DigitsValue(x.v) <= hi

\* the parameter is left out (the route then takes its default)
LeftOut(x) == x \in {Null, Str(<<>>)}

\* C6: GET /api/news answers 400, without calling getNewsList, every
\* request whose page is not an integer >= 1 or whose pageSize is not an
\* integer in 1..100 (a value that is not a number included); only requests
\* with page >= 1 and 1 <= pageSize <= 100 reach the repository.
Cex_C6 ==
    op = "GET /api/news"
    => LET valid == /\ LeftOut(req.query.page) \/ IntegerText(req.query.page, 1, 1000)
                    /\ LeftOut(req.query.pageSize) \/ IntegerText(req.query.pageSize, 1, 100)
       IN  IF valid THEN calls = <<"getNewsList">>
           ELSE resp.status = 400 /\ calls = <<>>

\* C7: createNews followed by getNewsById of the returned id yields a record
\* equal to the input on every field the caller supplied (optional strings
\* may be empty), with viewCount 0 and isPublished true when it was omitted.
Cex_C7 ==
    (op = "POST /api/news" /\ resp.status = 201)
    => LET input == NewsData(req.body.v)
           got == getNewsById(news, nextNewsId, ret.id, NoFault).value
       IN  /\ got # Null
           /\ \A f \in NewsFields : input[f] # Undef => got[f] = input[f]
           /\ got.viewCount = 0
           /\ req.body.v.isPublished = Undef => got.isPublished = Bool(TRUE)

\* slugs the validator must reject: a space inside, upper case, special
\* characters, empty
RejectedSlugs ==
    {Str(<<"a", " ", "b">>), Str(<<"A">>), Str(<<"a", "@", "!">>), Str(<<>>)}

\* C11: after any sequence of POST /api/news and PUT /api/news/[id] from an
\* empty table every stored slug matches ^[a-z0-9-_]+$ and no two rows share
\* a slug; a payload with a rejected slug is answered 400 and the table is
\* left as it was.
Thm_C11 ==
    [][/\ \A r \in news' : IsString(r.slug) /\ SlugPattern(r.slug.v)
       /\ \A r1, r2 \in news' : r1.slug = r2.slug => r1 = r2
       /\ (/\ op' \in {"POST /api/news", "PUT /api/news/[id]"}
           /\ req'.body.t = "object"
           /\ req'.body.v.slug \in RejectedSlugs)
          => /\ resp'.status = 400
             /\ news' = news
             /\ nextNewsId' = nextNewsId]_vars

Wit_C11 ==
    /\ op = "PUT /api/news/[id]"
    /\ req.id = Str(<<"1">>)
    /\ HasId(news, 1)
    /\ req.body.t = "object"
    /\ req.body.v.slug = Str(<<"a", "@", "!">>)
    /\ resp.status = 400
    /\ Cardinality(news) = 2

\* the ids of a table
Ids(tbl) == {r.id : r \in tbl}

\* the list routes return visible rows only, all of them when nothing else
\* filters
ListsOnlyVisible ==
    /\ (op = "GET /api/news" /\ calls # <<>> /\ thrown = NoError)
       => /\ Range(ret.items) \subseteq {r \in news : r.isPublished = Bool(TRUE)}
          /\ (req.query.page = Null /\ req.query.pageSize = Null
                 /\ req.query.category = Null)
             => Range(ret.items) = {r \in news : r.isPublished = Bool(TRUE)}
    /\ (op = "GET /api/faculty" /\ thrown = NoError)
       => /\ Range(ret) \subseteq {r \in faculty : r.isVisible = Bool(TRUE)}
          /\ (req.query.category = Null /\ req.query.search = Null)
             => Range(ret) = {r \in faculty : r.isVisible = Bool(TRUE)}

\* the lookup by id returns the row of the id, whatever its flag
ByIdIgnoresFlag ==
    /\ (op = "GET /api/news/[id]" /\ calls # <<>> /\ thrown = NoError
          /\ HasId(news, IdParam(req.id).v))
       => ret = RowOf(news, IdParam(req.id).v) /\ resp = Reply(200, ret)
    /\ (op = "GET /api/faculty/[id]" /\ calls # <<>> /\ thrown = NoError
          /\ HasId(faculty, IdParam(req.id).v))
       => ret = RowOf(faculty, IdParam(req.id).v) /\ resp = Reply(200, ret)

\* C12: the visibility flag gates the list queries only: getNewsList and
\* getFacultyList never return a row whose flag is false while getNewsById
\* and getFacultyById return it; an update that sets the flag keeps every
\* row (no id leaves the table) and stores the flag, so the row leaves the
\* lists when it is false and is listed again when it is true.
Thm_C12 ==
    [][/\ ListsOnlyVisible'
       /\ ByIdIgnoresFlag'
       /\ (op' = "PUT /api/news/[id]" /\ resp'.status = 200
             /\ req'.body.v.isPublished # Undef)
          => /\ Ids(news') = Ids(news)
             /\ RowOf(news', IdParam(req'.id).v).isPublished = req'.body.v.isPublished
       /\ (op' = "PUT /api/faculty/[id]" /\ resp'.status = 200
             /\ req'.body.v.isVisible # Undef)
          => /\ Ids(faculty') = Ids(faculty)
             /\ RowOf(faculty', IdParam(req'.id).v).isVisible = req'.body.v.isVisible]_vars

\* the second change of the store is a PUT of isPublished = false alone, at
\* the time of the insertion: the row was published and is still there
Wit_C12 ==
    /\ op = "PUT /api/news/[id]"
    /\ resp.status = 200
    /\ req.body.v.isPublished = Bool(FALSE)
    /\ writes = 2
    /\ clock = 0
    /\ nextNewsId = 2
    /\ \E r \in news : r.id = 1 /\ r.isPublished = Bool(FALSE)

\* C13: without a concurrent writer updatePageContent(slug, c) is an upsert
\* by slug: when no row has the slug it inserts exactly one row with it, when
\* a row has it that row is updated in place (same id, same number of rows);
\* either way the other rows are untouched, the stored row is returned, and
\* getPageContent(slug) then returns the title and the content of c.
Thm_C13 ==
    [][(op' = "updatePageContent" /\ ~ConnectionFailed(thrown'))
       => LET slug == req'.slug
              before == {r \in pageContent : r.slug = slug}
              after == {r \in pageContent' : r.slug = slug}
              got == getPageContent(pageContent', nextPageContentId', slug, NoFault).value
          IN  /\ thrown' = NoError
              /\ Cardinality(after) = 1
              /\ pageContent' \ after = pageContent \ before
              /\ before # {} => Ids(after) = Ids(before)
              /\ before = {} => Ids(after) \cap Ids(pageContent) = {}
              /\ ret' \in after
              /\ got # Null
              /\ got.title = req'.content.title
              /\ got.content = req'.content.content]_vars

\* a row written at time 0 is updated in place at time 1
Wit_C13 ==
    /\ op = "updatePageContent"
    /\ thrown = NoError
    /\ ret.id = 1
    /\ ret.updatedAt = 1
    /\ ret.title = Str(<<"M">>)
    /\ pageContent = {ret}
    /\ nextPageContentId = 2

\* the rows the navigation query fetches
VisibleNav == {r \in navigation : r.isVisible = Bool(TRUE)}

\* the call returned the tree built from the fetched rows
BuiltTree == op = "getNavigationStructure" /\ thrown = NoError

\* C14: a fetched row whose parentId is set and is the id of no fetched row
\* is in the root list of the tree getNavigationStructure returns.
Cex_C14 ==
    BuiltTree
    => \A r \in VisibleNav :
          (Truthy(r.parentId) /\ ~\E q \in VisibleNav : q.id = r.parentId.v)
          => r.id \in Range(ret.roots)

\* C15: every fetched row (ids distinct) occurs exactly once in the tree
\* getNavigationStructure returns, flattened from the root list through the
\* children, whatever the parentId of the rows: missing, its own id, a cycle.
Cex_C15 ==
    BuiltTree
    => LET flat == flattenHierarchy(ret)
       IN  \A r \in VisibleNav :
              Cardinality({i \in 1..Len(flat) : flat[i] = r.id}) = 1

\* the ids of list are in non-decreasing sortOrder of their items
InSortOrder(list, items) ==
    \A i, j \in 1..Len(list) : i < j => items[list[i]].sortOrder <= items[list[j]].sortOrder

\* the children of an item, none when it has no list of children
ChildrenOf(item) == IF item.children.t = "array" THEN item.children.v ELSE <<>>

\* C16: the store returning the rows by ascending sortOrder, the root list
\* and the children of every item of the tree getNavigationStructure returns
\* are in non-decreasing sortOrder, with no sort after the grouping.
Thm_C16 ==
    op = "getNavigationStructure"
    => /\ InSortOrder(ret.roots, ret.items)
       /\ \A id \in DOMAIN ret.items : InSortOrder(ChildrenOf(ret.items[id]), ret.items)

\* two children of one item, the one of the greater id first
Wit_C16 ==
    /\ BuiltTree
    /\ \E id \in DOMAIN ret.items :
          LET kids == ChildrenOf(ret.items[id])
          IN  /\ Len(kids) = 2
              /\ kids[1] > kids[2]
              /\ ret.items[kids[1]].sortOrder < ret.items[kids[2]].sortOrder

\* C17: getNavigationStructure always returns a value; when the query of the
\* store fails it is the default navigation: six visible root items with ids
\* 1..6 in sortOrder 1..6 and no children; when the query succeeds it is
\* not the default navigation.
Thm_C17 ==
    op = "getNavigationStructure"
    => /\ ret # Undef
       /\ thrown # NoError
          => /\ ret = getDefaultNavigation
             /\ ret.roots = <<1, 2, 3, 4, 5, 6>>
             /\ DOMAIN ret.items = 1..6
             /\ \A i \in 1..6 : /\ ret.items[i].id = i
                                /\ ret.items[i].sortOrder = i
                                /\ ret.items[i].isVisible = Bool(TRUE)
                                /\ ~Truthy(ret.items[i].parentId)
                                /\ ChildrenOf(ret.items[i]) = <<>>
       /\ thrown = NoError => ret # getDefaultNavigation

Wit_C17 ==
    /\ op = "getNavigationStructure"
    /\ thrown.message = WrapPrefix \o ConnectionError.message
    /\ ret = getDefaultNavigation
    /\ navigation = DefaultNavRows

\* queries given to searchFaculty
SearchQueries == {Str(<<"a">>), Str(<<"M">>)}

\* the text s contains the query q, letter case ignored
ContainsText(s, q) == IsString(s) /\ Contains(Lower(s.v), Lower(q.v))

\* the visible members the search is described to find
SearchHits(tbl, q) ==
    {r \in tbl :
        /\ r.isVisible = Bool(TRUE)
        /\ \/ ContainsText(r.name, q)
           \/ ContainsText(r.nameEn, q)
           \/ ContainsText(r.title, q)
           \/ /\ r.researchInterests # Null
              /\ \E i \in 1..Len(r.researchInterests.v) :
                     ContainsText(r.researchInterests.v[i], q)}

\* C18: searchFaculty(q) returns exactly the visible members whose name,
\* nameEn, title or at least one element of researchInterests contains q,
\* letter case ignored; a member with q as an element of researchInterests is
\* returned even when q occurs in none of name, nameEn and title.
Cex_C18 ==
    \A q \in SearchQueries :
        \A r \in searchFaculty(faculty, nextFacultyId, q, NoFault) :
            ~r.thrown /\ Range(r.value) = SearchHits(faculty, q)

\* C19: POST /api/faculty with a valid payload, when createFaculty throws
\* an error whose message contains "duplicate" or "unique", is answered 409
\* and not 500.
Cex_C19 ==
    (op = "POST /api/faculty" /\ calls = <<"createFaculty">> /\ IsConflict(thrown))
    => resp.status = 409

\* the fields of a payload that the server owns
ServerOwned(route) ==
    IF route \in {"POST /api/news", "PUT /api/news/[id]"}
    THEN NewsBodyKeys \ NewsFields
    ELSE FacultyBodyKeys \ FacultyFields

\* C20: POST /api/news, POST /api/faculty, PUT /api/news/{id} and
\* PUT /api/faculty/{id} answer 400, without any store call, a payload that
\* sets a server-owned field (id, createdAt, updatedAt, viewCount;
\* publishedAt for news).
Cex_C20 ==
    (/\ op \in {"POST /api/news", "POST /api/faculty",
                "PUT /api/news/[id]", "PUT /api/faculty/[id]"}
     /\ req.body.t = "object"
     /\ \E k \in ServerOwned(op) : req.body.v[k] # Undef)
    => resp.status = 400 /\ calls = <<>> /\ stmts = <<>>

\* the routes that create and update, and the checks of each
WriteRoutes == {"POST /api/news", "POST /api/faculty",
                "PUT /api/news/[id]", "PUT /api/faculty/[id]"}
ChecksOf(route) ==
    CASE route = "POST /api/news" -> NewsPostChecks
      [] route = "PUT /api/news/[id]" -> NewsPutChecks
      [] route = "POST /api/faculty" -> FacultyPostChecks
      [] route = "PUT /api/faculty/[id]" -> FacultyPutChecks

\* the optional fields of a payload
OptionalOf(route) ==
    IF route \in {"POST /api/news", "PUT /api/news/[id]"}
    THEN NewsFields \ {"title", "slug", "content"}
    ELSE FacultyFields \ {"name", "title", "category"}

\* the payload b without its optional fields of value null
WithoutNulls(route, b) ==
    [k \in DOMAIN b |-> IF k \in OptionalOf(route) /\ b[k] = Null THEN Undef ELSE b[k]]

\* C21: in every create and update route a payload that is otherwise valid
\* and carries an optional field of value null is not answered 400 because of
\* that field.
Cex_C21 ==
    (/\ op \in WriteRoutes
     /\ req.body.t = "object"
     /\ \E k \in OptionalOf(op) : req.body.v[k] = Null
     /\ op \in {"PUT /api/news/[id]", "PUT /api/faculty/[id]"} => ~InvalidId(IdParam(req.id))
     /\ FirstViolation(ChecksOf(op), WithoutNulls(op, req.body.v)) = <<>>)
    => resp.status # 400

\* the rules of POST /api/news in their described order
PostRuleOrder ==
    << <<"required", "title">>, <<"required", "slug">>, <<"required", "content">>,
       <<"pattern", "slug">>, <<"optString", "summary">>,
       <<"optString", "thumbnailUrl">>, <<"optString", "author">>,
       <<"optString", "category">>, <<"optBoolean", "isPublished">>,
       <<"optStringArray", "tags">> >>

\* the message the handler gives for a rule
MessageOf(rf) ==
    (CHOOSE c \in Range(NewsPostChecks) : c.rule = rf[1] /\ c.field = rf[2]).msg

\* the rules of PostRuleOrder the payload b violates, by position
ViolatedRules(b) ==
    {i \in 1..Len(PostRuleOrder) :
        Violates(Check(PostRuleOrder[i][1], PostRuleOrder[i][2], <<>>), b)}

\* C22: POST /api/news answers a payload violating one or more rules with one
\* 400 whose message is that of the first violated rule in the order title,
\* slug, content, slug format, summary, thumbnailUrl, author, category,
\* isPublished, tags; no repository call is made.
Thm_C22 ==
    (op = "POST /api/news" /\ req.body.t = "object")
    => LET bad == ViolatedRules(req.body.v)
           first == CHOOSE i \in bad : \A j \in bad : i <= j
       IN  IF bad = {} THEN resp.status # 400
           ELSE /\ resp.status = 400
                /\ resp.body = [error |-> MessageOf(PostRuleOrder[first])]
                /\ calls = <<>>

Wit_C22 ==
    /\ op = "POST /api/news"
    /\ req.body = Obj([NewsBase EXCEPT !.content = Undef, !.slug = Str(<<"A">>)])
    /\ resp.status = 400
    /\ resp.body.error = IsRequired("Content")
    /\ Cardinality(ViolatedRules(req.body.v)) = 2

\* C23: run against an empty database with scripts/init-db.sql, the
\* migration script executes every statement of the file in file order,
\* creates the four tables and all their indexes, and reports success.
Cex_C23 ==
    (/\ migration.pc \in {"success", "failed"}
     /\ migration.file = InitDbSql)
    => /\ migration.pc = "success"
       /\ migration.executed = SelectSeq(InitDbSql, IsStatement)
       /\ migration.tables = {"news", "faculty", "page_content", "navigation"}
       /\ migration.indexes = {x.name : x \in {y \in Range(InitDbSql) : y.k = "index"}}

\* both calls found no page at their lookup
BothFoundNothing ==
    \A p \in Callers : procs[p].pc \in {"write", "done"} /\ procs[p].existing = Null

\* C24: two concurrent calls of updatePageContent on one slug may both find
\* no page and both send the INSERT; whatever the interleaving, once a call
\* has ended the table holds exactly one row of its slug; when both found
\* no page, one call returns the record and the other fails with the store's
\* uniqueness error, without an UPDATE.
Thm_C24 ==
    /\ \A p \in Callers :
          procs[p].pc = "done"
          => Cardinality({r \in pageContent : r.slug = procs[p].slug}) = 1
    /\ (/\ \A p \in Callers : procs[p].pc = "done"
        /\ procs[1].slug = procs[2].slug
        /\ BothFoundNothing)
       => \E p, q \in Callers :
             /\ p # q
             /\ ~procs[p].thrown /\ procs[p].value \in pageContent
             /\ procs[q].thrown /\ IsConflict(procs[q].error)
             /\ procs[q].stmts = <<"SELECT", "INSERT">>

Wit_C24 ==
    /\ \A p \in Callers : procs[p].pc = "done"
    /\ procs[1].slug = procs[2].slug
    /\ BothFoundNothing
    /\ procs[1].thrown /\ ~procs[2].thrown
    /\ Cardinality(pageContent) = 1

\* the calls of fn that have ended
EndedCalls(fn) == {p \in DOMAIN procs : procs[p].pc = "done" /\ procs[p].fn = fn}

\* viewCount of row 1 less the increments of row 1 that have ended
ViewBase ==
    RowOf(news, 1).viewCount
    - Cardinality({p \in EndedCalls("incrementViewCount") : procs[p].id = 1})

\* the row r without its viewCount
OtherColumns(r) == [c \in DOMAIN r \ {"viewCount"} |-> r[c]]

\* C25: in every interleaving of concurrent incrementViewCount and updateNews
\* calls, viewCount of the row is its initial value plus the number of
\* increments that have ended (so initial + k at the end); viewCount never
\* decreases; an increment changes no other column, updatedAt included, and
\* does not fail, even for an id no row has.
Thm_C25 ==
    [][/\ ViewBase' = ViewBase
       /\ RowOf(news', 1).viewCount >= RowOf(news, 1).viewCount
       /\ \A p \in DOMAIN procs :
             (procs[p].fn = "incrementViewCount" /\ procs[p].pc # procs'[p].pc)
             => /\ ~procs'[p].thrown
                /\ {OtherColumns(r) : r \in news'} = {OtherColumns(r) : r \in news}
                /\ faculty' = faculty
                /\ procs[p].id # 1 => news' = news]_vars

Wit_C25 ==
    /\ DOMAIN procs = 1..3
    /\ \A p \in DOMAIN procs : procs[p].pc = "done"
    /\ Cardinality({p \in EndedCalls("incrementViewCount") : procs[p].id = 1}) = 2
    /\ EndedCalls("updateNews") # {}
    /\ RowOf(news, 1).viewCount = 3
    /\ RowOf(news, 1).updatedAt = 1

\* C26: the page query and the COUNT query of getNewsList are two round
\* trips; when no write is applied between them the result has
\* items.length <= total, and a write between them can give a total that is
\* inconsistent with the items (smaller than their number).
Thm_C26 ==
    (procs.reader.pc = "done" /\ ~procs.reader.between)
    => /\ ~procs.reader.thrown
       /\ Len(procs.reader.value.items) <= procs.reader.value.total.v

Wit_C26 ==
    /\ procs.reader.pc = "done"
    /\ procs.reader.between
    /\ procs.reader.value.total.v < Len(procs.reader.value.items)

\* the ended calls of fn that supplied the field c
Suppliers(fn, c) == {p \in EndedCalls(fn) : procs[p].data[c] # Undef}

\* the row carries, for every field an ended call supplied, the value of one
\* of the calls that supplied it
CarriesAll(fn, tbl, fields) ==
    \A c \in fields :
        Suppliers(fn, c) # {} => \E p \in Suppliers(fn, c) : RowOf(tbl, 1)[c] = procs[p].data[c]

\* C27: concurrent partial updates of one row do not lose each other's
\* writes: whatever the interleaving, the row carries the value of every
\* field only one call supplied, and for a field several calls supplied the
\* value of one of them.
Thm_C27 ==
    /\ CarriesAll("updateNews", news, NewsFields)
    /\ CarriesAll("updateFaculty", faculty, FacultyFields)
    /\ \A p \in EndedCalls("updateNews") \cup EndedCalls("updateFaculty") : ~procs[p].thrown

Wit_C27 ==
    /\ Cardinality(EndedCalls("updateNews")) = 2
    /\ Suppliers("updateNews", "title") # {}
    /\ Suppliers("updateNews", "isPublished") # {}
    /\ RowOf(news, 1).title = Str(<<"M">>)
    /\ RowOf(news, 1).isPublished = Bool(FALSE)
    /\ Cardinality(EndedCalls("updateFaculty")) = 1

PageOptional == {"metaDescription", "metaKeywords", "sidebarContent", "updatedBy"}

\* C28: updatePageContent on a slug that has a row replaces the row: title
\* and content are those of the input, every optional field the input omits
\* or gives as an empty string becomes null whatever was stored, id and slug
\* are kept, and updatedAt is the time of the call.
Thm_C28 ==
    [][(/\ op' = "updatePageContent"
        /\ thrown' = NoError
        /\ \E r \in pageContent : r.slug = req'.slug)
       => LET old == CHOOSE r \in pageContent : r.slug = req'.slug
              new == CHOOSE r \in pageContent' : r.slug = req'.slug
              c == req'.content
          IN  /\ new.id = old.id
              /\ new.title = c.title /\ new.content = c.content
              /\ \A f \in PageOptional :
                    new[f] = IF c[f] \in {Undef, Str(<<>>)} THEN Null ELSE c[f]
              /\ new.updatedAt = clock
              /\ Cardinality(pageContent') = Cardinality(pageContent)
              /\ ret' = new]_vars

Wit_C28 ==
    /\ op = "updatePageContent"
    /\ thrown = NoError
    /\ stmts = <<"SELECT", "UPDATE">>
    /\ req.content.metaDescription = Str(<<>>)
    /\ ret.metaDescription = Null
    /\ ret.updatedAt = 1
    /\ writes = 2
    /\ nextPageContentId = 2
    /\ pageContent = {ret}

PutRoutes == {"PUT /api/news/[id]", "PUT /api/faculty/[id]"}

\* the optional string fields of a payload
OptionalStrings(route) ==
    IF route = "PUT /api/news/[id]" THEN {"summary", "thumbnailUrl", "author", "category"}
    ELSE FacultyOptTrimmed

\* the table a route writes
TableOf(route, n, f) == IF route = "PUT /api/news/[id]" THEN n ELSE f

\* C29: PUT /api/news/{id} and PUT /api/faculty/{id} with an optional string
\* field given as null pass validation but do not clear the field: its stored
\* value is unchanged; when such fields are the only fields of the body no
\* UPDATE is sent, updatedAt stays, and the answer is 200 with the unchanged
\* record, or 404 when no row has the id.
Thm_C29 ==
    [][(/\ op' \in PutRoutes
        /\ req'.body.t = "object"
        /\ ~InvalidId(IdParam(req'.id))
        /\ \E k \in OptionalStrings(op') : req'.body.v[k] = Null
        /\ ~ConnectionFailed(thrown'))
       => LET b == req'.body.v
              id == IdParam(req'.id).v
              nulls == {k \in OptionalStrings(op') : b[k] = Null}
              before == TableOf(op', news, faculty)
              after == TableOf(op', news', faculty')
          IN  /\ resp'.status = 200
                 => \A k \in nulls : RowOf(after, id)[k] = RowOf(before, id)[k]
              /\ {k \in DOMAIN b : b[k] # Undef} = nulls
                 => /\ stmts' = <<"SELECT">>
                    /\ after = before
                    /\ resp' = IF HasId(before, id) THEN Reply(200, RowOf(before, id))
                               ELSE ErrorReply(404, IF op' = "PUT /api/news/[id]"
                                                    THEN NewsNotFound
                                                    ELSE FacultyNotFound)]_vars

Wit_C29 ==
    /\ op = "PUT /api/news/[id]"
    /\ req.body = Obj([NewsEmpty EXCEPT !.title = Str(<<"M">>), !.summary = Null])
    /\ resp.status = 200
    /\ ret.summary = Str(<<"z">>)
    /\ ret.title = Str(<<"M">>)
    /\ ret \in news

\* C30: a JSON body that is the value null is not a validation failure: the
\* four create and update routes answer it 500 "Internal server error"
\* without a repository call; the PUT routes answer an invalid id 400 before
\* they read the body.
Thm_C30 ==
    (op \in WriteRoutes /\ req.body = Null)
    => /\ calls = <<>> /\ stmts = <<>>
       /\ IF op \in PutRoutes /\ InvalidId(IdParam(req.id))
          THEN resp.status = 400
          ELSE resp = ErrorReply(500, InternalServerError)

Wit_C30 ==
    /\ op = "POST /api/faculty"
    /\ req.body = Null
    /\ resp.status = 500
    /\ thrown = NullBodyTypeError
    /\ faculty # {}

\* no field of a partial update is set
NoFieldSet(d) == \A f \in DOMAIN d : d[f] = Undef

\* C8: updateNews and updateFaculty with no field set send no UPDATE: both
\* tables are as before (updatedAt included) and the result is what
\* getById returns for the id, null when no row has it.
Thm_C8 ==
    [][(\/ /\ op' = "PUT /api/news/[id]"
           /\ calls' = <<"updateNews">>
           /\ NoFieldSet(NewsUpdateData(req'.body.v))
        \/ /\ op' = "PUT /api/faculty/[id]"
           /\ calls' = <<"updateFaculty">>
           /\ NoFieldSet(FacultyUpdateData(req'.body.v)))
       => /\ ~Includes(stmts', "UPDATE")
          /\ news' = news
          /\ faculty' = faculty
          /\ thrown' = NoError =>
                ret' = IF op' = "PUT /api/news/[id]"
                       THEN getNewsById(news, nextNewsId, IdParam(req'.id).v, NoFault).value
                       ELSE getFacultyById(faculty, nextFacultyId, IdParam(req'.id).v,
                                           NoFault).value]_vars

Wit_C8 ==
    /\ op = "PUT /api/news/[id]"
    /\ calls = <<"updateNews">>
    /\ req.body.v.summary = Null
    /\ NoFieldSet(NewsUpdateData(req.body.v))
    /\ resp.status = 200
    /\ ret.updatedAt < clock

\* the category counts as a filter when it is given and not empty
Filtering(c) == c \notin {Undef, Str(<<>>)}

\* the rows a list of category c is about
Listed(c) ==
    {r \in news : r.isPublished = Bool(TRUE) /\ (Filtering(c) => r.category = c)}

\* C9: getNewsList(page, pageSize, category) returns at most pageSize
\* items, and total is the number of published rows of the category (of all
\* published rows without a category), whatever page and pageSize.
Thm_C9 ==
    (op = "getNewsList" /\ thrown = NoError)
    => /\ Len(ret.items) <= req.pageSize
       /\ ret.total = Num(Cardinality(Listed(req.category)))

Wit_C9 ==
    /\ op = "getNewsList"
    /\ thrown = NoError
    /\ req.category = Str(<<"c">>)
    /\ req.page = 2
    /\ Len(ret.items) = req.pageSize
    /\ ret.total.v > Len(ret.items)
    /\ ret.total.v < Cardinality({r \in news : r.isPublished = Bool(TRUE)})

\* no two rows were published at the same time
DistinctPublishedAt == \A r1, r2 \in news : r1.publishedAt = r2.publishedAt => r1 = r2

\* C10: with pairwise distinct publishedAt, getNewsList returns only
\* published rows (of the category, when one is given), newest first in
\* strictly descending publishedAt: the item at position i of page p is the
\* row with exactly (p - 1) * pageSize + i - 1 newer listed rows.
Thm_C10 ==
    (op = "getNewsList" /\ thrown = NoError /\ DistinctPublishedAt)
    => /\ \A i \in 1..Len(ret.items) :
             /\ ret.items[i] \in Listed(req.category)
             /\ Cardinality({r \in Listed(req.category) :
                               r.publishedAt > ret.items[i].publishedAt})
                  = (req.page - 1) * req.pageSize + i - 1
       /\ \A i, j \in 1..Len(ret.items) :
             i < j => ret.items[i].publishedAt > ret.items[j].publishedAt

Wit_C10 ==
    /\ op = "getNewsList"
    /\ thrown = NoError
    /\ DistinctPublishedAt
    /\ Len(ret.items) >= 2
    /\ \E r \in news : /\ r.isPublished = Bool(FALSE)
                       /\ r.publishedAt > ret.items[1].publishedAt

====
